---- MODULE Spec2Model ----
(***************************************************************************)
(* FastestLOLCounterFinder: the ApiClient of src/src/api-client.js.  The   *)
(* rate-limited fetch client (checkRateLimit, makeRequest), the direct      *)
(* Data Dragon path (makeDdragonRequest), the discovery of players         *)
(* (getHighEloPlayers), the match collector (collectRankedMatches,         *)
(* isValidMatch), the extraction of lane pairings (extractMatchupData,     *)
(* determineLane), the statistics (calculateCounterRelationships) and the  *)
(* whole run (fetchAllData).                                               *)
(*                                                                         *)
(* Time is counted in ticks.  The quotas and the durations of the rate     *)
(* limiter, and the collection targets, are scaled down so that the        *)
(* limiter's two branches and the target are reached within a few          *)
(* requests; each scaled definition names the literal of the source it     *)
(* stands for.  The order between them is the source's: the cool-down is   *)
(* longer than the one-second window (1100 > 1000), the long sleep is as   *)
(* long as the two-minute window (120000 = 2*60*1000), the two-minute      *)
(* quota is above the one-second quota (100 > 20).                         *)
(***************************************************************************)
EXTENDS Integers, Sequences, FiniteSets, TLC

\* ---- scaled literals of the rate limiter (api-client.js:621-650) ----
\* requests allowed per one-second window: 20 at api-client.js:638
PerSecondLimit == 2
\* requests allowed per two-minute window: 100 at api-client.js:644
TwoMinuteLimit == 3
\* ticks in one second: the 1000 of api-client.js:623 and of :678
OneSecond == 1
\* the cool-down sleep: 1100 ms at api-client.js:639
CoolDown == 2
\* the two-minute window: 2 * 60 * 1000 ms at api-client.js:624
TwoMinutes == 3
\* the long sleep: 120000 ms at api-client.js:645
TwoMinuteSleep == 3

\* ---- bounds of the environment ----
\* the clock value up to which time passes on its own (latency, idle caller)
MaxTime == 4
\* network calls over a whole behaviour
MaxSends == 5

\* ---- scaled literals and bounds of the collector (api-client.js:980-1027) ----
\* the cap of the target: 1000 at api-client.js:983
MaxTargetMatches == 2
\* matches wanted per player: 10 at api-client.js:983
MatchesPerPlayer == 1
\* the pause after a match and after a player: 55 ms at api-client.js:1011, 1018
MatchPause == 1
\* longest player list handed to collectRankedMatches
MaxPlayers == 2
\* longest identifier list the server answers with (count=40 at api-client.js:992)
MaxIds == 2

\* ---- scaled literals of getHighEloPlayers (api-client.js:867-975) ----
\* entries taken from the challenger league: 100 at api-client.js:881
ChallengerCap == 2
\* entries taken from the grandmaster league: 60 at api-client.js:908
GrandmasterCap == 1
\* entries taken from the master league: 40 at api-client.js:934
MasterCap == 1
\* the pause after a tier: 1100 ms at api-client.js:894, 921, 947
TierPause == 2
\* the pause after a resolution: 55 ms at api-client.js:962
ResolvePause == 1

\* ---- bounds of the extraction (api-client.js:1072-1144) ----
\* longest participant list of a match handed to extractMatchupData
MaxParticipants == 3

\* ---- scaled literals of getChampionData (api-client.js:817-850) ----
\* detail requests of one batch: 5 at api-client.js:826
DetailBatch == 1
\* the pause between two batches: 100 ms at api-client.js:845
BatchPause == 1

\* ---- bounds of the statistics (api-client.js:1149-1316) ----
\* most observations of one kind handed to calculateCounterRelationships
MaxGames == 45

\* ---- literals of isValidMatch (api-client.js:1032-1045) ----
RankedSoloQueue == 420
MinDuration == 900
MaxDuration == 3600
FullParticipants == 10

\* ---- literals of the statistics (api-client.js:1222-1316) ----
\* MIN_SAMPLE_SIZE, api-client.js:1223 (and 30 at api-client.js:1305)
MinSampleSize == 30
\* STRONG_COUNTER_THRESHOLD 0.65, in percent: api-client.js:1224
StrongCounterPercent == 65
\* COUNTER_THRESHOLD 0.56, in percent: api-client.js:1225
CounterPercent == 56
\* the win rate differences 0.15, 0.10, 0.06 of classifyCounterStrength, in
\* percent: api-client.js:1311-1313
HardPercent == 15
StrongPercent == 10
SoftPercent == 6
\* pValue < 0.05 (api-client.js:1288) with the normalCDF of api-client.js:1298
\* is zScore^2 > -ln(1 - 0.95^2) * pi / 2 = 3.656661..., here in millionths
SignificanceMillionths == 3656661

VARIABLES
    now,            \* Date.now()
    requests,       \* this.rateLimitTracker.requests
    callCount,      \* this.callCount
    totalRequests,  \* checkRateLimit's local totalRequests
    mrPc,           \* position of the makeRequest call in progress
    url,            \* makeRequest's parameter url
    options,        \* makeRequest's parameter options
    response,       \* makeRequest's local response (of the innermost attempt)
    result,         \* the value makeRequest resolved with
    error,          \* the error makeRequest rejected with
    sent,           \* history: the times of the network calls of the last two minutes
    sendCount,      \* history: the number of network calls issued
    lastSent,       \* history: url and options of the last network call
    checks,         \* history: the checkRateLimit calls that returned
    attempts,       \* history: network calls of the makeRequest call in progress
    retries,        \* history: HTTP 429 answers to the call in progress
    last429,        \* history: arrival time and Retry-After of the last HTTP 429
    players,        \* collectRankedMatches' parameter players (their puuids)
    cPc,            \* position of collectRankedMatches
    playerIdx,      \* index of the player of the outer loop
    matchIds,       \* the identifier list of the current player
    idIdx,          \* index of the identifier of the inner loop
    allMatches,     \* collectRankedMatches' local allMatches
    seenMatchIds,   \* collectRankedMatches' local seenMatchIds
    targetMatches,  \* collectRankedMatches' local targetMatches
    acceptedIds,    \* history: the identifier each element of allMatches was fetched under
    discardedIds,   \* history: identifiers whose fetched record isValidMatch rejected
    dPc,            \* position of getHighEloPlayers
    tierIdx,        \* the tier block of getHighEloPlayers at hand
    eloPlayers,     \* getHighEloPlayers' local players
    resolveIdx,     \* getHighEloPlayers' loop index i
    highEloPlayers, \* the list getHighEloPlayers returned
    tierAnswers,    \* history: what the server answered for each tier
    resolutions,    \* history: how the resolution of each summonerId ended
    matchData,      \* extractMatchupData's parameter matchData
    laneGroups,     \* extractMatchupData's local laneGroups, of the last match it grouped
    matchups,       \* the list extractMatchupData returns, calculateCounterRelationships' parameter
    champions,      \* calculateCounterRelationships' parameter champions
    reordered,      \* the observations of matchups in another order
    firstResult,    \* what the call on matchups returned, once it is called again
    calls,          \* calls of calculateCounterRelationships whose result was kept
    faPc,           \* position of fetchAllData
    isProd,         \* this.config.isProd
    version,        \* gameData.metadata.version
    errors,         \* gameData.errors
    gameStats,      \* gameData.championStats
    ddPc,           \* position of makeDdragonRequest
    ddUrl,          \* makeDdragonRequest's parameter url
    ddResult,       \* the document makeDdragonRequest resolved with
    ddError,        \* the message of the error makeDdragonRequest rejected with
    ddSends,        \* history: the network calls makeDdragonRequest issued
    championData,   \* getChampionData's local championData.data
    detailedChampions, \* getChampionData's local detailedChampions
    detailIdx,      \* index of the champion whose detail request is at hand
    matchupIdx,     \* index of the observation of the forEach of line 1176
    matchupStats,   \* calculateCounterRelationships' local matchupStats
    championStats,  \* the object calculateCounterRelationships returns
    aPc             \* position of the analysis: extraction, then statistics

fetchVars == <<now, requests, callCount, totalRequests, mrPc, url, options,
               response, result, error, sent, sendCount, lastSent, checks, attempts,
               retries, last429>>

collectVars == <<players, cPc, playerIdx, matchIds, idIdx, allMatches,
                 seenMatchIds, targetMatches, acceptedIds, discardedIds>>

discoverVars == <<dPc, tierIdx, eloPlayers, resolveIdx, highEloPlayers, tierAnswers,
                  resolutions>>

repeatVars == <<reordered, firstResult, calls>>
ddVars == <<ddPc, ddUrl, ddResult, ddError, ddSends>>
catalogueVars == <<championData, detailedChampions, detailIdx>>
pipelineVars == <<faPc, isProd, version, errors, gameStats, ddVars, catalogueVars>>
analysisVars == <<matchData, laneGroups, matchups, champions, matchupIdx, matchupStats,
                  championStats, aPc, repeatVars, pipelineVars>>

vars == <<fetchVars, collectVars, discoverVars, analysisVars>>

\* the parameters and locals of a makeRequest call, and its history
callVars == <<url, options, response, result, error, attempts, retries, last429>>
\* the history of the network calls
sendVars == <<sent, sendCount, lastSent>>

\* ---------------------------------------------------------------------
\* Values exchanged with the server
\* ---------------------------------------------------------------------

Min(a, b) == IF a <= b THEN a ELSE b

\* match identifiers the server knows
MatchIdSet == {"JP1_1", "JP1_2"}

\* this.endpoints.matchIdsByPuuid(puuid) + "?queue=420&count=40"
matchIdsByPuuid(puuid) == [kind |-> "matchIds", arg |-> ToString(puuid)]
\* this.endpoints.matchById(matchId)
matchById(matchId) == [kind |-> "match", arg |-> matchId]

NoUrl == [kind |-> "none", arg |-> ""]

\* the options a caller may pass; every caller in the repository passes none
DefaultOptions == "{}"

Participants(n) == [i \in 1..n |-> i]

NoMatch == [hasInfo |-> FALSE, queueId |-> 0, gameMode |-> "", gameDuration |-> 0,
            hasParticipants |-> FALSE, participants |-> <<>>]

GoodMatch(d) == [hasInfo |-> TRUE, queueId |-> RankedSoloQueue, gameMode |-> "CLASSIC",
                 gameDuration |-> d, hasParticipants |-> TRUE,
                 participants |-> Participants(FullParticipants)]

\* Match records the server may answer with: the two boundary records that
\* pass the filter and, for each condition of the filter, records failing it.
MatchDetails ==
    { GoodMatch(MinDuration), GoodMatch(MaxDuration), NoMatch,
      [GoodMatch(MinDuration) EXCEPT !.queueId = 440],
      [GoodMatch(MinDuration) EXCEPT !.gameMode = "ARAM"],
      [GoodMatch(MinDuration) EXCEPT !.gameDuration = MinDuration - 1],
      [GoodMatch(MinDuration) EXCEPT !.gameDuration = MaxDuration + 1],
      [GoodMatch(MinDuration) EXCEPT !.participants = Participants(FullParticipants - 1)],
      [GoodMatch(MinDuration) EXCEPT !.participants = Participants(FullParticipants + 1)],
      [GoodMatch(MinDuration) EXCEPT !.hasParticipants = FALSE, !.participants = <<>>] }

RECURSIVE SeqsUpTo(_, _)
SeqsUpTo(S, n) ==
    IF n = 0 THEN {<<>>}
    ELSE LET shorter == SeqsUpTo(S, n - 1)
         IN  shorter \cup {Append(s, x) : s \in {t \in shorter : Len(t) = n - 1}, x \in S}

IdLists == SeqsUpTo(MatchIdSet, MaxIds)

\* the league tiers getHighEloPlayers queries, in the order of its blocks
Tiers == <<"CHALLENGER", "GRANDMASTER", "MASTER">>

\* .../lol/league/v4/<tier>leagues/by-queue/RANKED_SOLO_5x5
leagueByQueue(tier) == [kind |-> "league", arg |-> tier]
\* .../lol/summoner/v4/summoners/<summonerId>
summonerById(summonerId) == [kind |-> "summoner", arg |-> summonerId]

\* an element of the entries of a league document
LeagueEntry(tier, i, leaguePoints) ==
    [summonerId |-> tier \o "-" \o ToString(i), rank |-> "I",
     leaguePoints |-> leaguePoints]

\* The entry lists the server may answer a tier query with: none, one, three
\* in no order, three and four with equal points.
LeagueLists(tier) ==
    { <<>>,
      <<LeagueEntry(tier, 1, 300)>>,
      <<LeagueEntry(tier, 1, 100), LeagueEntry(tier, 2, 300), LeagueEntry(tier, 3, 200)>>,
      <<LeagueEntry(tier, 1, 200), LeagueEntry(tier, 2, 200), LeagueEntry(tier, 3, 100)>>,
      <<LeagueEntry(tier, 1, 100), LeagueEntry(tier, 2, 400), LeagueEntry(tier, 3, 250),
        LeagueEntry(tier, 4, 400)>> }

\* the summonerIds the server knows
SummonerIds ==
    UNION { { l[i].summonerId : i \in DOMAIN l } :
            l \in UNION { LeagueLists(Tiers[t]) : t \in DOMAIN Tiers } }

\* the puuid the server keeps for a summonerId
PuuidOf(summonerId) == "puuid-" \o summonerId

\* a JSON document without any of the fields the callers read
NoData == [ids |-> <<>>, match |-> NoMatch, hasEntries |-> FALSE, entries |-> <<>>,
           puuid |-> ""]

\* the JSON documents the server may answer a request for u with
Bodies(u) ==
    CASE u.kind = "matchIds" -> {[NoData EXCEPT !.ids = s] : s \in IdLists}
      [] u.kind = "match" -> {[NoData EXCEPT !.match = m] : m \in MatchDetails}
      [] u.kind = "league" ->
            {NoData} \cup {[NoData EXCEPT !.hasEntries = TRUE, !.entries = l] :
                              l \in LeagueLists(u.arg)}
      [] u.kind = "summoner" -> {NoData, [NoData EXCEPT !.puuid = PuuidOf(u.arg)]}
      [] OTHER -> {NoData}

\* Retry-After header: absent (headers.get gives null) or a string of digits
NoHeader == [present |-> FALSE, value |-> <<>>]
RetryAfterHeaders ==
    { NoHeader,
      [present |-> TRUE, value |-> <<>>],
      [present |-> TRUE, value |-> <<0>>],
      [present |-> TRUE, value |-> <<2>>],
      [present |-> TRUE, value |-> <<0, 1>>] }

\* answers outside 2xx other than 429: status and body text
ErrorAnswers == {<<403, "Forbidden">>, <<500, "Internal error">>}

NoResponse == [status |-> 0, retryAfter |-> NoHeader, text |-> "", data |-> NoData]
NoError == [kind |-> "none", status |-> 0, text |-> ""]
No429 == [at |-> 0, retryAfter |-> NoHeader, url |-> NoUrl, options |-> DefaultOptions]

\* ---------------------------------------------------------------------
\* ApiClient.checkRateLimit (api-client.js:621-650)
\* ---------------------------------------------------------------------

\* Array.prototype.filter with the predicate timestamp > bound
NewerThan(log, bound) == SelectSeq(log, LAMBDA timestamp : timestamp > bound)

\* a variant that rejects the call when the two-minute quota is used up
CheckEnterRejects ==
    /\ mrPc = "check"
    /\ LET oneSecondAgo == now - OneSecond
           twoMinutesAgo == now - TwoMinutes
           cleaned == NewerThan(requests, twoMinutesAgo)
           recentRequests == Len(NewerThan(cleaned, oneSecondAgo))
       IN  /\ requests' = cleaned
           /\ totalRequests' = Len(cleaned)
           /\ IF recentRequests >= PerSecondLimit
              THEN mrPc' = "coolDown" /\ checks' = checks
              ELSE IF Len(cleaned) >= TwoMinuteLimit
                   THEN mrPc' = "thrown" /\ checks' = checks
                   ELSE mrPc' = "send" /\ checks' = checks + 1
    /\ UNCHANGED <<now, callCount, callVars, sendVars,
                   collectVars, discoverVars, analysisVars>>

\* a variant whose per-second test is > where line 638 has >=
CheckEnterOffByOne ==
    /\ mrPc = "check"
    /\ LET oneSecondAgo == now - OneSecond
           twoMinutesAgo == now - TwoMinutes
           cleaned == NewerThan(requests, twoMinutesAgo)
           recentRequests == Len(NewerThan(cleaned, oneSecondAgo))
       IN  /\ requests' = cleaned
           /\ totalRequests' = Len(cleaned)
           /\ IF recentRequests > PerSecondLimit
              THEN mrPc' = "coolDown" /\ checks' = checks
              ELSE IF Len(cleaned) >= TwoMinuteLimit
                   THEN mrPc' = "longSleep" /\ checks' = checks
                   ELSE mrPc' = "send" /\ checks' = checks + 1
    /\ UNCHANGED <<now, callCount, callVars, sendVars,
                   collectVars, discoverVars, analysisVars>>

\* lines 622-635: the clean-up of the log and the two counts; lines 638, 644
CheckEnter ==
    /\ mrPc = "check"
    /\ LET oneSecondAgo == now - OneSecond
           twoMinutesAgo == now - TwoMinutes
           cleaned == NewerThan(requests, twoMinutesAgo)
           recentRequests == Len(NewerThan(cleaned, oneSecondAgo))
       IN  /\ requests' = cleaned
           /\ totalRequests' = Len(cleaned)
           /\ IF recentRequests >= PerSecondLimit
              THEN mrPc' = "coolDown" /\ checks' = checks
              ELSE IF Len(cleaned) >= TwoMinuteLimit
                   THEN mrPc' = "longSleep" /\ checks' = checks
                   ELSE mrPc' = "send" /\ checks' = checks + 1
    /\ UNCHANGED <<now, callCount, callVars, sendVars,
                   collectVars, discoverVars, analysisVars>>

\* lines 638-642: the cool-down sleep is over; line 644 then reads totalRequests
CheckCoolDownOver ==
    /\ mrPc = "coolDown"
    /\ now' = now + CoolDown
    /\ IF totalRequests >= TwoMinuteLimit
       THEN mrPc' = "longSleep" /\ checks' = checks
       ELSE mrPc' = "send" /\ checks' = checks + 1
    /\ UNCHANGED <<requests, callCount, totalRequests, callVars, sendVars,
                   collectVars, discoverVars, analysisVars>>

\* a variant of the long sleep that keeps the log
CheckLongSleepOverKeepsLog ==
    /\ mrPc = "longSleep"
    /\ now' = now + TwoMinuteSleep
    /\ mrPc' = "send"
    /\ checks' = checks + 1
    /\ UNCHANGED <<requests, callCount, totalRequests, callVars, sendVars,
                   collectVars, discoverVars, analysisVars>>

\* lines 644-649: the long sleep is over and the log is reset
CheckLongSleepOver ==
    /\ mrPc = "longSleep"
    /\ now' = now + TwoMinuteSleep
    /\ requests' = <<>>
    /\ mrPc' = "send"
    /\ checks' = checks + 1
    /\ UNCHANGED <<callCount, totalRequests, callVars, sendVars,
                   collectVars, discoverVars, analysisVars>>

checkRateLimit == CheckEnter \/ CheckCoolDownOver \/ CheckLongSleepOver

\* ---------------------------------------------------------------------
\* ApiClient.makeRequest (api-client.js:655-698)
\* ---------------------------------------------------------------------

RECURSIVE Decimal(_)
Decimal(digits) ==
    IF digits = <<>> THEN 0
    ELSE 10 * Decimal(SubSeq(digits, 1, Len(digits) - 1)) + digits[Len(digits)]

\* a variant that waits one second whatever the header says
RetryDelayFixed(header) == OneSecond

\* line 678: parseInt(response.headers.get('Retry-After') || '1') * 1000
RetryDelay(header) ==
    LET text == IF ~header.present \/ header.value = <<>> THEN <<1>> ELSE header.value
    IN  Decimal(text) * OneSecond

\* response.ok of node-fetch
Ok(status) == status >= 200 /\ status <= 299

\* line 655: the call, seen from the caller
MakeRequestCall(u, o) ==
    /\ mrPc = "idle"
    /\ mrPc' = "check"
    /\ url' = u
    /\ options' = o
    /\ UNCHANGED <<response, result, error, attempts, retries, last429>>

\* the caller has taken the outcome of the call: the frames of makeRequest,
\* with their parameters and locals, are gone
MakeRequestConsumed ==
    /\ mrPc \in {"returned", "thrown"}
    /\ mrPc' = "idle"
    /\ url' = NoUrl
    /\ options' = DefaultOptions
    /\ response' = NoResponse
    /\ result' = NoData
    /\ error' = NoError
    /\ attempts' = 0
    /\ retries' = 0
    /\ last429' = No429

\* line 661: fetch(url, ...) is called
FetchSend ==
    /\ mrPc = "send"
    /\ mrPc' = "fetching"
    /\ sent' = Append(NewerThan(sent, now - TwoMinutes), now)
    /\ sendCount' = sendCount + 1
    /\ lastSent' = [url |-> url, options |-> options]
    /\ attempts' = attempts + 1
    /\ UNCHANGED <<now, requests, callCount, totalRequests, url, options, response,
                   result, error, retries, last429, checks,
                   collectVars, discoverVars, analysisVars>>

\* line 661 rejects (network-level failure); lines 694-697 log and rethrow
FetchFails ==
    /\ mrPc = "fetching"
    /\ mrPc' = "thrown"
    /\ error' = [kind |-> "transport", status |-> 0, text |-> ""]
    /\ UNCHANGED <<now, requests, callCount, totalRequests, url, options, response,
                   result, attempts, retries, last429, sendVars, checks,
                   collectVars, discoverVars, analysisVars>>

\* lines 670-672: the request is recorded once its response is there
RecordRequest ==
    /\ requests' = Append(requests, now)
    /\ callCount' = callCount + 1

\* a variant with a retry cap: the second HTTP 429 of a call is thrown
Receive429Capped(header) ==
    /\ mrPc = "fetching"
    /\ sendCount < MaxSends
    /\ RecordRequest
    /\ response' = [status |-> 429, retryAfter |-> header, text |-> "", data |-> NoData]
    /\ retries' = retries + 1
    /\ last429' = [at |-> now, retryAfter |-> header, url |-> lastSent.url,
                   options |-> lastSent.options]
    /\ IF retries >= 1
       THEN mrPc' = "thrown" /\ error' = [kind |-> "http", status |-> 429, text |-> ""]
       ELSE mrPc' = "backoff" /\ error' = error
    /\ UNCHANGED <<now, totalRequests, url, options, result, attempts,
                   sendVars, checks,
                   collectVars, discoverVars, analysisVars>>

\* lines 677-680: HTTP 429; the sleep of line 680 begins
Receive429(header) ==
    /\ mrPc = "fetching"
    /\ sendCount < MaxSends
    /\ RecordRequest
    /\ response' = [status |-> 429, retryAfter |-> header, text |-> "", data |-> NoData]
    /\ mrPc' = "backoff"
    /\ retries' = retries + 1
    /\ last429' = [at |-> now, retryAfter |-> header, url |-> lastSent.url,
                   options |-> lastSent.options]
    /\ UNCHANGED <<now, totalRequests, url, options, result, error, attempts,
                   sendVars, checks,
                   collectVars, discoverVars, analysisVars>>

\* a variant whose retry calls fetch again without checkRateLimit
RetryUnchecked ==
    /\ mrPc = "backoff"
    /\ now' = now + RetryDelay(response.retryAfter)
    /\ mrPc' = "send"
    /\ response' = NoResponse
    /\ UNCHANGED <<requests, callCount, totalRequests, url, options, result, error,
                   attempts, retries, last429, sendVars, checks,
                   collectVars, discoverVars, analysisVars>>

\* line 681: the sleep is over, makeRequest(url, options) is called again
Retry ==
    /\ mrPc = "backoff"
    /\ now' = now + RetryDelay(response.retryAfter)
    /\ mrPc' = "check"
    /\ response' = NoResponse
    /\ UNCHANGED <<requests, callCount, totalRequests, url, options, result, error,
                   attempts, retries, last429, sendVars, checks,
                   collectVars, discoverVars, analysisVars>>

\* a variant that retries a 5xx answer as it retries HTTP 429
ReceiveErrorRetried(status, text) ==
    /\ mrPc = "fetching"
    /\ ~Ok(status) /\ status # 429
    /\ RecordRequest
    /\ response' = [status |-> status, retryAfter |-> NoHeader, text |-> text,
                    data |-> NoData]
    /\ IF status >= 500 /\ sendCount < MaxSends
       THEN mrPc' = "backoff" /\ error' = error
       ELSE mrPc' = "thrown" /\ error' = [kind |-> "http", status |-> status, text |-> text]
    /\ UNCHANGED <<now, totalRequests, url, options, result, attempts, retries,
                   last429, sendVars, checks,
                   collectVars, discoverVars, analysisVars>>

\* lines 684-687 and 694-697: another status outside 2xx
ReceiveError(status, text) ==
    /\ mrPc = "fetching"
    /\ ~Ok(status) /\ status # 429
    /\ RecordRequest
    /\ response' = [status |-> status, retryAfter |-> NoHeader, text |-> text,
                    data |-> NoData]
    /\ mrPc' = "thrown"
    /\ error' = [kind |-> "http", status |-> status, text |-> text]
    /\ UNCHANGED <<now, totalRequests, url, options, result, attempts, retries,
                   last429, sendVars, checks,
                   collectVars, discoverVars, analysisVars>>

\* lines 689-692: a 2xx response whose body parses
ReceiveOk(data) ==
    /\ mrPc = "fetching"
    /\ RecordRequest
    /\ response' = [status |-> 200, retryAfter |-> NoHeader, text |-> "", data |-> data]
    /\ mrPc' = "returned"
    /\ result' = data
    /\ UNCHANGED <<now, totalRequests, url, options, error, attempts, retries,
                   last429, sendVars, checks,
                   collectVars, discoverVars, analysisVars>>

\* line 689 throws: a 2xx response whose body is no JSON document
ReceiveUnparsable ==
    /\ mrPc = "fetching"
    /\ RecordRequest
    /\ response' = [status |-> 200, retryAfter |-> NoHeader, text |-> "<html>",
                    data |-> NoData]
    /\ mrPc' = "thrown"
    /\ error' = [kind |-> "syntax", status |-> 0, text |-> ""]
    /\ UNCHANGED <<now, totalRequests, url, options, result, attempts, retries,
                   last429, sendVars, checks,
                   collectVars, discoverVars, analysisVars>>

makeRequest ==
    \/ checkRateLimit
    \/ FetchSend
    \/ FetchFails
    \/ \E header \in RetryAfterHeaders : Receive429(header)
    \/ Retry
    \/ \E answer \in ErrorAnswers : ReceiveError(answer[1], answer[2])
    \/ \E data \in Bodies(url) : ReceiveOk(data)
    \/ ReceiveUnparsable

\* ---------------------------------------------------------------------
\* The fetch client under a caller that awaits each call before the next
\* ---------------------------------------------------------------------

\* time passes while the response is awaited or while the caller is idle
Elapse ==
    /\ mrPc \in {"fetching", "idle"}
    /\ now < MaxTime
    /\ now' = now + 1
    /\ UNCHANGED <<requests, callCount, totalRequests, mrPc, callVars, sendVars,
                   checks,
                   collectVars, discoverVars, analysisVars>>

\* the calls of the caller: url and options
CallArgs == {<<matchById("JP1_1"), DefaultOptions>>, <<matchById("JP1_2"), "{timeout}">>}

CallerCalls ==
    /\ sendCount < MaxSends
    /\ \E a \in CallArgs : MakeRequestCall(a[1], a[2])
    /\ UNCHANGED <<now, requests, callCount, totalRequests, sendVars, checks,
                   collectVars, discoverVars, analysisVars>>

CallerResumes ==
    /\ MakeRequestConsumed
    /\ UNCHANGED <<now, requests, callCount, totalRequests, sendVars, checks,
                   collectVars, discoverVars, analysisVars>>

\* the keys of laneGroups, in the order of lines 1079-1085
Lanes == <<"TOP", "MIDDLE", "BOTTOM", "UTILITY", "JUNGLE">>

LaneSet == { Lanes[i] : i \in DOMAIN Lanes }

\* laneGroups as line 1079 builds it
NoGroups == [lane \in LaneSet |-> <<>>]

\* getHighEloPlayers is not running
NoTierAnswer == [asked |-> FALSE, answered |-> FALSE, entries |-> <<>>]

DiscoverIdle ==
    /\ dPc = "idle"
    /\ tierIdx = 0
    /\ eloPlayers = <<>>
    /\ resolveIdx = 0
    /\ highEloPlayers = <<>>
    /\ tierAnswers = [t \in DOMAIN Tiers |-> NoTierAnswer]
    /\ resolutions = [id \in SummonerIds |-> "none"]

\* neither extractMatchupData nor calculateCounterRelationships is running
\* no second call of calculateCounterRelationships is planned
RepeatIdle ==
    /\ reordered = <<>>
    /\ firstResult = <<>>
    /\ calls = 0

\* a Data Dragon document without any of the fields the callers read
NoDocument == [versions |-> <<>>, hasData |-> FALSE, data |-> <<>>]

\* makeDdragonRequest is not running
DdragonIdle ==
    /\ ddPc = "idle"
    /\ ddUrl = NoUrl
    /\ ddResult = NoDocument
    /\ ddError = ""
    /\ ddSends = 0

\* fetchAllData is not running
PipelineIdle ==
    /\ faPc = "idle"
    /\ isProd = TRUE
    /\ version = ""
    /\ errors = <<>>
    /\ gameStats = <<>>
    /\ DdragonIdle
    /\ championData = <<>>
    /\ detailedChampions = <<>>
    /\ detailIdx = 0

AnalysisIdle ==
    /\ RepeatIdle
    /\ PipelineIdle
    /\ matchData = <<>>
    /\ laneGroups = NoGroups
    /\ matchups = <<>>
    /\ champions = <<>>
    /\ matchupIdx = 0
    /\ matchupStats = <<>>
    /\ championStats = <<>>
    /\ aPc = "idle"

\* collectRankedMatches is not running
CollectIdle ==
    /\ players = <<>>
    /\ cPc = "idle"
    /\ playerIdx = 0
    /\ matchIds = <<>>
    /\ idIdx = 0
    /\ allMatches = <<>>
    /\ seenMatchIds = {}
    /\ targetMatches = 0
    /\ acceptedIds = <<>>
    /\ discardedIds = {}

InitFetch ==
    /\ now = 0
    /\ requests = <<>>
    /\ callCount = 0
    /\ totalRequests = 0
    /\ mrPc = "idle"
    /\ url = NoUrl
    /\ options = DefaultOptions
    /\ response = NoResponse
    /\ result = NoData
    /\ error = NoError
    /\ sent = <<>>
    /\ sendCount = 0
    /\ lastSent = [url |-> NoUrl, options |-> DefaultOptions]
    /\ checks = 0
    /\ attempts = 0
    /\ retries = 0
    /\ last429 = No429

Init ==
    /\ InitFetch
    /\ CollectIdle
    /\ DiscoverIdle
    /\ AnalysisIdle

Next == CallerCalls \/ CallerResumes \/ makeRequest \/ Elapse

Spec == Init /\ [][Next]_vars

\* ---------------------------------------------------------------------
\* checkRateLimit called with any request log
\* ---------------------------------------------------------------------

\* The logs the tracker may hold at time t: timestamps are pushed in the
\* order of the clock, and a log may be one longer than the two-minute
\* quota lets a sequential caller make it.
Logs(t) ==
    { log \in SeqsUpTo(0..t, TwoMinuteLimit + 1) :
         \A i \in 1..(Len(log) - 1) : log[i] <= log[i + 1] }

\* makeRequest has just called checkRateLimit (line 656)
InitCheck ==
    /\ now \in 0..MaxTime
    /\ requests \in Logs(now)
    /\ callCount = Len(requests)
    /\ totalRequests = 0
    /\ mrPc = "check"
    /\ url = matchById("JP1_1")
    /\ options = DefaultOptions
    /\ response = NoResponse
    /\ result = NoData
    /\ error = NoError
    /\ sent = <<>>
    /\ sendCount = 0
    /\ lastSent = [url |-> NoUrl, options |-> DefaultOptions]
    /\ checks = 0
    /\ attempts = 0
    /\ retries = 0
    /\ last429 = No429
    /\ CollectIdle
    /\ DiscoverIdle
    /\ AnalysisIdle

NextCheck == checkRateLimit

\* The sleeps of checkRateLimit are timers (sleep, lines 1538-1540): a timer
\* fires and the event loop runs the continuation, so a step of
\* checkRateLimit that is possible is taken.
SpecCheck == InitCheck /\ [][NextCheck]_vars /\ WF_vars(NextCheck)

\* ---------------------------------------------------------------------
\* ApiClient.isValidMatch (api-client.js:1032-1045)
\* ---------------------------------------------------------------------

\* a variant without the upper bound on the duration
isValidMatchNoUpperBound(match) ==
    IF ~match.hasInfo THEN FALSE
    ELSE /\ match.queueId = RankedSoloQueue
         /\ match.gameMode = "CLASSIC"
         /\ match.gameDuration >= MinDuration
         /\ match.hasParticipants
         /\ Len(match.participants) = FullParticipants

isValidMatch(match) ==
    IF ~match.hasInfo THEN FALSE
    ELSE /\ match.queueId = RankedSoloQueue
         /\ match.gameMode = "CLASSIC"
         /\ match.gameDuration >= MinDuration
         /\ match.gameDuration <= MaxDuration
         /\ match.hasParticipants
         /\ Len(match.participants) = FullParticipants

\* ---------------------------------------------------------------------
\* ApiClient.collectRankedMatches (api-client.js:980-1027)
\* ---------------------------------------------------------------------

\* what makeRequest does not touch while the collector runs between calls
limiterVars == <<requests, callCount, totalRequests, sendVars, checks>>

\* lines 981-985
CollectEnter ==
    /\ cPc = "call"
    /\ allMatches' = <<>>
    /\ seenMatchIds' = {}
    /\ targetMatches' = Min(MaxTargetMatches, Len(players) * MatchesPerPlayer)
    /\ playerIdx' = 1
    /\ cPc' = "players"
    /\ UNCHANGED <<fetchVars, players, matchIds, idIdx, acceptedIds, discardedIds>>
    /\ UNCHANGED <<discoverVars, analysisVars>>

\* lines 987-993: the head of the outer loop and the identifier-list request
NextPlayer ==
    /\ cPc = "players"
    /\ IF playerIdx > Len(players) \/ Len(allMatches) >= targetMatches
       THEN /\ cPc' = "done"
            /\ UNCHANGED <<mrPc, callVars>>
       ELSE /\ MakeRequestCall(matchIdsByPuuid(players[playerIdx]), DefaultOptions)
            /\ cPc' = "awaitIds"
    /\ UNCHANGED <<now, limiterVars, players, playerIdx, matchIds, idIdx, allMatches,
                   seenMatchIds, targetMatches, acceptedIds, discardedIds>>
    /\ UNCHANGED <<discoverVars, analysisVars>>

\* line 993 resolves
IdsReturned ==
    /\ cPc = "awaitIds" /\ mrPc = "returned"
    /\ matchIds' = result.ids
    /\ idIdx' = 1
    /\ cPc' = "ids"
    /\ MakeRequestConsumed
    /\ UNCHANGED <<now, limiterVars, players, playerIdx, allMatches, seenMatchIds,
                   targetMatches, acceptedIds, discardedIds>>
    /\ UNCHANGED <<discoverVars, analysisVars>>

\* a variant in which a failed identifier-list request ends the collection
IdsFailedAborts ==
    /\ cPc = "awaitIds" /\ mrPc = "thrown"
    /\ cPc' = "done"
    /\ MakeRequestConsumed
    /\ UNCHANGED <<now, limiterVars, players, playerIdx, matchIds, idIdx, allMatches,
                   seenMatchIds, targetMatches, acceptedIds, discardedIds>>
    /\ UNCHANGED <<discoverVars, analysisVars>>

\* line 993 rejects: lines 1020-1022, then the next player
IdsFailed ==
    /\ cPc = "awaitIds" /\ mrPc = "thrown"
    /\ playerIdx' = playerIdx + 1
    /\ cPc' = "players"
    /\ MakeRequestConsumed
    /\ UNCHANGED <<now, limiterVars, players, matchIds, idIdx, allMatches,
                   seenMatchIds, targetMatches, acceptedIds, discardedIds>>
    /\ UNCHANGED <<discoverVars, analysisVars>>

\* a variant of the inner loop without the test of line 998
NextIdNoSeenCheck ==
    /\ cPc = "ids"
    /\ IF idIdx > Len(matchIds) \/ Len(allMatches) >= targetMatches
       THEN /\ now' = now + MatchPause
            /\ playerIdx' = playerIdx + 1
            /\ cPc' = "players"
            /\ UNCHANGED <<idIdx, mrPc, callVars>>
       ELSE /\ MakeRequestCall(matchById(matchIds[idIdx]), DefaultOptions)
            /\ cPc' = "awaitDetail"
            /\ UNCHANGED <<now, playerIdx, idIdx>>
    /\ UNCHANGED <<limiterVars, players, matchIds, allMatches, seenMatchIds,
                   targetMatches, acceptedIds, discardedIds>>
    /\ UNCHANGED <<discoverVars, analysisVars>>

\* a variant of the inner loop without the test of line 997
NextIdNoTargetCheck ==
    /\ cPc = "ids"
    /\ IF idIdx > Len(matchIds)
       THEN /\ now' = now + MatchPause
            /\ playerIdx' = playerIdx + 1
            /\ cPc' = "players"
            /\ UNCHANGED <<idIdx, mrPc, callVars>>
       ELSE IF matchIds[idIdx] \in seenMatchIds
       THEN /\ idIdx' = idIdx + 1
            /\ UNCHANGED <<now, playerIdx, cPc, mrPc, callVars>>
       ELSE /\ MakeRequestCall(matchById(matchIds[idIdx]), DefaultOptions)
            /\ cPc' = "awaitDetail"
            /\ UNCHANGED <<now, playerIdx, idIdx>>
    /\ UNCHANGED <<limiterVars, players, matchIds, allMatches, seenMatchIds,
                   targetMatches, acceptedIds, discardedIds>>
    /\ UNCHANGED <<discoverVars, analysisVars>>

\* lines 996-1003 and 1018: the head of the inner loop, the match-detail
\* request, and the pause that follows the loop
NextId ==
    /\ cPc = "ids"
    /\ IF idIdx > Len(matchIds) \/ Len(allMatches) >= targetMatches
       THEN /\ now' = now + MatchPause
            /\ playerIdx' = playerIdx + 1
            /\ cPc' = "players"
            /\ UNCHANGED <<idIdx, mrPc, callVars>>
       ELSE IF matchIds[idIdx] \in seenMatchIds
       THEN /\ idIdx' = idIdx + 1
            /\ UNCHANGED <<now, playerIdx, cPc, mrPc, callVars>>
       ELSE /\ MakeRequestCall(matchById(matchIds[idIdx]), DefaultOptions)
            /\ cPc' = "awaitDetail"
            /\ UNCHANGED <<now, playerIdx, idIdx>>
    /\ UNCHANGED <<limiterVars, players, matchIds, allMatches, seenMatchIds,
                   targetMatches, acceptedIds, discardedIds>>
    /\ UNCHANGED <<discoverVars, analysisVars>>

\* lines 1005-1011: the match-detail request resolves
DetailReturned ==
    /\ cPc = "awaitDetail" /\ mrPc = "returned"
    /\ LET matchId == matchIds[idIdx]
           matchDetail == result.match
       IN  IF isValidMatch(matchDetail)
           THEN /\ allMatches' = Append(allMatches, matchDetail)
                /\ seenMatchIds' = seenMatchIds \cup {matchId}
                /\ acceptedIds' = Append(acceptedIds, matchId)
                /\ UNCHANGED discardedIds
           ELSE /\ discardedIds' = discardedIds \cup {matchId}
                /\ UNCHANGED <<allMatches, seenMatchIds, acceptedIds>>
    /\ now' = now + MatchPause
    /\ idIdx' = idIdx + 1
    /\ cPc' = "ids"
    /\ MakeRequestConsumed
    /\ UNCHANGED <<limiterVars, players, playerIdx, matchIds, targetMatches>>
    /\ UNCHANGED <<discoverVars, analysisVars>>

\* the match-detail request rejects: lines 1013-1015, then the next identifier
DetailFailed ==
    /\ cPc = "awaitDetail" /\ mrPc = "thrown"
    /\ idIdx' = idIdx + 1
    /\ cPc' = "ids"
    /\ MakeRequestConsumed
    /\ UNCHANGED <<now, limiterVars, players, playerIdx, matchIds, allMatches,
                   seenMatchIds, targetMatches, acceptedIds, discardedIds>>
    /\ UNCHANGED <<discoverVars, analysisVars>>

collectRankedMatches ==
    \/ CollectEnter
    \/ NextPlayer
    \/ IdsReturned
    \/ IdsFailed
    \/ NextId
    \/ DetailReturned
    \/ DetailFailed

\* collectRankedMatches is called once, with up to MaxPlayers players
InitCollect ==
    /\ InitFetch
    /\ \E n \in 0..MaxPlayers : players = [i \in 1..n |-> i]
    /\ cPc = "call"
    /\ playerIdx = 0
    /\ matchIds = <<>>
    /\ idIdx = 0
    /\ allMatches = <<>>
    /\ seenMatchIds = {}
    /\ targetMatches = 0
    /\ acceptedIds = <<>>
    /\ discardedIds = {}
    /\ DiscoverIdle
    /\ AnalysisIdle

\* The server of this specification answers a request with a 2xx document,
\* with an error status, or not at all.  HTTP 429 and its retries stay
\* inside makeRequest, the collector sees neither; they are exercised by Spec.
NextCollect ==
    \/ collectRankedMatches
    \/ checkRateLimit
    \/ FetchSend
    \/ FetchFails
    \/ \E answer \in ErrorAnswers : ReceiveError(answer[1], answer[2])
    \/ \E data \in Bodies(url) : ReceiveOk(data)

SpecCollect == InitCollect /\ [][NextCollect]_vars

\* ---------------------------------------------------------------------
\* ApiClient.getHighEloPlayers (api-client.js:867-975)
\* ---------------------------------------------------------------------

\* the slice bound of each tier block (lines 881, 908, 934)
TierCap(tier) ==
    CASE tier = "CHALLENGER" -> ChallengerCap
      [] tier = "GRANDMASTER" -> GrandmasterCap
      [] tier = "MASTER" -> MasterCap

\* Array.prototype.sort with (a, b) => b.leaguePoints - a.leaguePoints: a
\* stable sort, so entries of equal points keep their order
RECURSIVE SortByPoints(_)
SortByPoints(entries) ==
    IF entries = <<>> THEN <<>>
    ELSE LET n == Len(entries)
             e == entries[n]
             sorted == SortByPoints(SubSeq(entries, 1, n - 1))
             k == Len(SelectSeq(sorted, LAMBDA x : x.leaguePoints >= e.leaguePoints))
         IN  SubSeq(sorted, 1, k) \o <<e>> \o SubSeq(sorted, k + 1, n - 1)

\* a variant that slices without sorting
TopEntriesUnsorted(entries, cap) == SubSeq(entries, 1, Min(cap, Len(entries)))

\* entries.sort(...).slice(0, cap): lines 879-881, 906-908, 932-934
TopEntries(entries, cap) ==
    LET sorted == SortByPoints(entries)
    IN  SubSeq(sorted, 1, Min(cap, Len(sorted)))

\* lines 884-890, 911-917, 936-943; puuid: null is the empty string here,
\* both are falsy for the filter of line 969
PlayerOf(entry, tier) ==
    [summonerId |-> entry.summonerId, tier |-> tier, rank |-> entry.rank,
     leaguePoints |-> entry.leaguePoints, puuid |-> ""]

\* lines 868-872
DiscoverEnter ==
    /\ dPc = "call"
    /\ eloPlayers' = <<>>
    /\ tierIdx' = 1
    /\ dPc' = "tier"
    /\ UNCHANGED <<fetchVars, resolveIdx, highEloPlayers, tierAnswers, resolutions>>
    /\ UNCHANGED <<collectVars, analysisVars>>

\* lines 874-876, 901-903, 928-930: the request of the next tier block; after
\* the last block the resolution loop of line 955 begins
TierRequest ==
    /\ dPc = "tier"
    /\ IF tierIdx > Len(Tiers)
       THEN /\ dPc' = "resolve"
            /\ resolveIdx' = 1
            /\ UNCHANGED <<mrPc, callVars, tierAnswers>>
       ELSE /\ MakeRequestCall(leagueByQueue(Tiers[tierIdx]), DefaultOptions)
            /\ dPc' = "awaitTier"
            /\ tierAnswers' = [tierAnswers EXCEPT ![tierIdx].asked = TRUE]
            /\ UNCHANGED resolveIdx
    /\ UNCHANGED <<now, limiterVars, tierIdx, eloPlayers, highEloPlayers, resolutions>>
    /\ UNCHANGED <<collectVars, analysisVars>>

\* lines 879-894 (and the two blocks after it): the league document is there.
\* Without entries line 879 throws a TypeError and the catch of line 896
\* takes over, as for a failed request.
TierReturned ==
    /\ dPc = "awaitTier" /\ mrPc = "returned"
    /\ LET tier == Tiers[tierIdx]
       IN  IF result.hasEntries
           THEN LET top == TopEntries(result.entries, TierCap(tier))
                IN  /\ eloPlayers' = eloPlayers \o
                                        [i \in DOMAIN top |-> PlayerOf(top[i], tier)]
                    /\ now' = now + TierPause
                    /\ tierAnswers' = [tierAnswers EXCEPT ![tierIdx].answered = TRUE,
                                                          ![tierIdx].entries = result.entries]
           ELSE UNCHANGED <<eloPlayers, now, tierAnswers>>
    /\ tierIdx' = tierIdx + 1
    /\ dPc' = "tier"
    /\ MakeRequestConsumed
    /\ UNCHANGED <<limiterVars, resolveIdx, highEloPlayers, resolutions>>
    /\ UNCHANGED <<collectVars, analysisVars>>

\* a variant in which a failed tier query ends the discovery with no players
TierFailedAborts ==
    /\ dPc = "awaitTier" /\ mrPc = "thrown"
    /\ highEloPlayers' = <<>>
    /\ dPc' = "done"
    /\ MakeRequestConsumed
    /\ UNCHANGED <<now, limiterVars, tierIdx, eloPlayers, resolveIdx, tierAnswers,
                   resolutions>>
    /\ UNCHANGED <<collectVars, analysisVars>>

\* lines 896-898, 923-925, 949-951: the tier request failed, the next block runs
TierFailed ==
    /\ dPc = "awaitTier" /\ mrPc = "thrown"
    /\ tierIdx' = tierIdx + 1
    /\ dPc' = "tier"
    /\ MakeRequestConsumed
    /\ UNCHANGED <<now, limiterVars, eloPlayers, resolveIdx, highEloPlayers, tierAnswers,
                   resolutions>>
    /\ UNCHANGED <<collectVars, analysisVars>>

\* lines 955-959 and 969: the request for the next player, or the return of
\* the players that have a puuid
ResolveNext ==
    /\ dPc = "resolve"
    /\ IF resolveIdx > Len(eloPlayers)
       THEN /\ highEloPlayers' = SelectSeq(eloPlayers, LAMBDA p : p.puuid # "")
            /\ dPc' = "done"
            /\ UNCHANGED <<mrPc, callVars>>
       ELSE /\ MakeRequestCall(summonerById(eloPlayers[resolveIdx].summonerId),
                               DefaultOptions)
            /\ dPc' = "awaitResolve"
            /\ UNCHANGED highEloPlayers
    /\ UNCHANGED <<now, limiterVars, tierIdx, eloPlayers, resolveIdx, tierAnswers,
                   resolutions>>
    /\ UNCHANGED <<collectVars, analysisVars>>

\* lines 960-962: the summoner document is there; a document without puuid
\* leaves the player without one
ResolveReturned ==
    /\ dPc = "awaitResolve" /\ mrPc = "returned"
    /\ eloPlayers' = [eloPlayers EXCEPT ![resolveIdx].puuid = result.puuid]
    /\ resolutions' = [resolutions EXCEPT ![eloPlayers[resolveIdx].summonerId] =
                           IF result.puuid # "" THEN "resolved" ELSE "noPuuid"]
    /\ now' = now + ResolvePause
    /\ resolveIdx' = resolveIdx + 1
    /\ dPc' = "resolve"
    /\ MakeRequestConsumed
    /\ UNCHANGED <<limiterVars, tierIdx, highEloPlayers, tierAnswers>>
    /\ UNCHANGED <<collectVars, analysisVars>>

\* lines 964-966: the resolution failed, the next player is taken
ResolveFailed ==
    /\ dPc = "awaitResolve" /\ mrPc = "thrown"
    /\ resolutions' = [resolutions EXCEPT ![eloPlayers[resolveIdx].summonerId] = "failed"]
    /\ resolveIdx' = resolveIdx + 1
    /\ dPc' = "resolve"
    /\ MakeRequestConsumed
    /\ UNCHANGED <<now, limiterVars, tierIdx, eloPlayers, highEloPlayers, tierAnswers>>
    /\ UNCHANGED <<collectVars, analysisVars>>

getHighEloPlayers ==
    \/ DiscoverEnter
    \/ TierRequest
    \/ TierReturned
    \/ TierFailed
    \/ ResolveNext
    \/ ResolveReturned
    \/ ResolveFailed

\* getHighEloPlayers is called once (line 761)
InitDiscover ==
    /\ InitFetch
    /\ CollectIdle
    /\ AnalysisIdle
    /\ dPc = "call"
    /\ tierIdx = 0
    /\ eloPlayers = <<>>
    /\ resolveIdx = 0
    /\ highEloPlayers = <<>>
    /\ tierAnswers = [t \in DOMAIN Tiers |-> NoTierAnswer]
    /\ resolutions = [id \in SummonerIds |-> "none"]

\* the server answers as in SpecCollect
NextDiscover ==
    \/ getHighEloPlayers
    \/ checkRateLimit
    \/ FetchSend
    \/ FetchFails
    \/ \E answer \in ErrorAnswers : ReceiveError(answer[1], answer[2])
    \/ \E data \in Bodies(url) : ReceiveOk(data)

SpecDiscover == InitDiscover /\ [][NextDiscover]_vars

\* ---------------------------------------------------------------------
\* ApiClient.determineLane, ApiClient.extractMatchupData (api-client.js:1072-1144)
\* ---------------------------------------------------------------------

\* no lane: the null of line 1143
NoLane == "null"

\* a variant that consults the role table before the position
determineLaneRoleFirst(participant) ==
    LET position == participant.teamPosition
        role == participant.role
    IN  CASE role = "SOLO" -> "TOP"
          [] role = "DUO" -> "MIDDLE"
          [] role = "DUO_CARRY" -> "BOTTOM"
          [] role = "DUO_SUPPORT" -> "UTILITY"
          [] role = "NONE" -> "JUNGLE"
          [] OTHER -> IF position # "" /\ position \in LaneSet THEN position ELSE NoLane

\* lines 1125-1144.  A field the participant does not have is the empty
\* string here: both are falsy at line 1130 and neither is a key of
\* roleMapping.
determineLane(participant) ==
    LET position == participant.teamPosition
        role == participant.role
    IN  IF position # "" /\ position \in LaneSet
        THEN position
        ELSE CASE role = "SOLO" -> "TOP"
               [] role = "DUO" -> "MIDDLE"
               [] role = "DUO_CARRY" -> "BOTTOM"
               [] role = "DUO_SUPPORT" -> "UTILITY"
               [] role = "NONE" -> "JUNGLE"
               [] OTHER -> NoLane

\* lines 1079-1092: the lane groups of a match
GroupsOf(match) ==
    [lane \in LaneSet |->
        SelectSeq(match.participants, LAMBDA participant : determineLane(participant) = lane)]

\* lines 1099-1114
MatchupOf(match, lane, p1, p2) ==
    [matchId |-> match.matchId, lane |-> lane,
     champion1 |-> [id |-> p1.championId, name |-> p1.championName, win |-> p1.win,
                    teamId |-> p1.teamId],
     champion2 |-> [id |-> p2.championId, name |-> p2.championName, win |-> p2.win,
                    teamId |-> p2.teamId]]

\* a variant that pairs the first two participants of a lane with two or more
LaneMatchupsAtLeastTwo(match, lane) ==
    LET participants == GroupsOf(match)[lane]
    IN  IF Len(participants) >= 2
        THEN <<MatchupOf(match, lane, participants[1], participants[2])>>
        ELSE <<>>

\* lines 1096-1115: what a lane of a match adds to matchups
LaneMatchups(match, lane) ==
    LET participants == GroupsOf(match)[lane]
    IN  IF Len(participants) = 2
        THEN <<MatchupOf(match, lane, participants[1], participants[2])>>
        ELSE <<>>

\* lines 1095-1116: Object.entries(laneGroups).forEach, in the order of the keys
RECURSIVE MatchupsOfLanes(_, _)
MatchupsOfLanes(match, n) ==
    IF n = 0 THEN <<>>
    ELSE MatchupsOfLanes(match, n - 1) \o LaneMatchups(match, Lanes[n])

\* line 1076
HasParticipants(match) == match.hasInfo /\ match.hasParticipants

\* lines 1072-1120
RECURSIVE extractMatchupData(_)
extractMatchupData(data) ==
    IF data = <<>> THEN <<>>
    ELSE LET n == Len(data)
             match == data[n]
         IN  extractMatchupData(SubSeq(data, 1, n - 1)) \o
                (IF HasParticipants(match) THEN MatchupsOfLanes(match, Len(Lanes)) ELSE <<>>)

\* the matches of data that line 1076 does not skip
Grouped(data) == SelectSeq(data, HasParticipants)

\* what a participant record says about position and role: every teamPosition
\* and role the match API gives, a teamPosition and roles it does not know,
\* and records without the fields
Positions == LaneSet \cup {"", "Invalid"}
Roles == {"", "SOLO", "DUO", "DUO_CARRY", "DUO_SUPPORT", "NONE", "CARRY", "SUPPORT"}

\* the i-th participant of a match: champion, team and outcome go with the index
Participant(i, position, role) ==
    [championId |-> 100 + i, championName |-> "Champion" \o ToString(100 + i),
     teamId |-> IF i % 2 = 1 THEN 100 ELSE 200, win |-> (i % 2 = 1),
     teamPosition |-> position, role |-> role]

\* the position and role pairs of the participants of the longer lists: two
\* ways into TOP, two into MIDDLE, and two that give no lane
FewClasses ==
    { <<"TOP", "NONE">>, <<"", "SOLO">>, <<"MIDDLE", "">>, <<"Invalid", "DUO">>,
      <<"", "">>, <<"Invalid", "SUPPORT">> }

AllClasses == Positions \X Roles

MatchOf(matchId, classes) ==
    [matchId |-> matchId, hasInfo |-> TRUE, hasParticipants |-> TRUE,
     participants |-> [i \in DOMAIN classes |-> Participant(i, classes[i][1], classes[i][2])]]

\* matches without info, and with info that has no participants
BareMatches ==
    { [matchId |-> "JP1_0", hasInfo |-> FALSE, hasParticipants |-> FALSE,
       participants |-> <<>>],
      [matchId |-> "JP1_0", hasInfo |-> TRUE, hasParticipants |-> FALSE,
       participants |-> <<>>] }

\* the position and role pairs that put a participant into a solo lane: by
\* its position, or by its role when the position is empty
SoloLaneClasses ==
    { <<"TOP", "">>, <<"", "SOLO">>, <<"MIDDLE", "">>, <<"", "DUO">> }

\* the matches of ten participants, five of each team: the first four are
\* in the solo lanes in any arrangement, the other six in BOTTOM, UTILITY and
\* JUNGLE, one of each team, by position or by role
FullMatches ==
    LET others == << <<"BOTTOM", "">>, <<"", "DUO_CARRY">>, <<"UTILITY", "">>,
                     <<"", "DUO_SUPPORT">>, <<"JUNGLE", "">>, <<"", "NONE">> >>
    IN  { MatchOf("JP1_3", four \o others) : four \in [1..4 -> SoloLaneClasses] }

\* the match lists handed to extractMatchupData: one match, of one
\* participant of any class, of up to MaxParticipants of the few classes or
\* of ten participants, alone, after a match that is skipped, or before a
\* match with a TOP pair
MatchLists ==
    LET one == { MatchOf("JP1_1", <<c>>) : c \in AllClasses } \cup
               { MatchOf("JP1_1", cs) : cs \in SeqsUpTo(FewClasses, MaxParticipants) }
        pair == MatchOf("JP1_2", << <<"TOP", "">>, <<"", "SOLO">> >>)
    IN  {<<>>} \cup { <<m>> : m \in one }
               \cup { <<b, m>> : b \in BareMatches, m \in one }
               \cup { <<m, pair>> : m \in one }
               \cup { <<m>> : m \in FullMatches }

\* lines 1072-1120: the call of line 769
ExtractCall ==
    /\ aPc = "extract"
    /\ matchups' = extractMatchupData(matchData)
    /\ laneGroups' = LET grouped == Grouped(matchData)
                     IN  IF grouped = <<>> THEN NoGroups
                         ELSE GroupsOf(grouped[Len(grouped)])
    /\ aPc' = "extracted"
    /\ UNCHANGED <<matchData, champions, matchupIdx, matchupStats, championStats, repeatVars,
                   pipelineVars>>
    /\ UNCHANGED <<fetchVars, collectVars, discoverVars>>

InitExtract ==
    /\ InitFetch
    /\ CollectIdle
    /\ DiscoverIdle
    /\ matchData \in MatchLists
    /\ laneGroups = NoGroups
    /\ matchups = <<>>
    /\ champions = <<>>
    /\ PipelineIdle
    /\ RepeatIdle
    /\ matchupIdx = 0
    /\ matchupStats = <<>>
    /\ championStats = <<>>
    /\ aPc = "extract"

NextExtract == ExtractCall

SpecExtract == InitExtract /\ [][NextExtract]_vars

\* ---------------------------------------------------------------------
\* ApiClient.calculateCounterRelationships (api-client.js:1149-1316)
\* ---------------------------------------------------------------------

\* A win rate is the pair of the counts it is the quotient of: wins / total.
\* The quotient of two counts is the double nearest to the fraction, so it
\* compares with the double of a literal as the fraction does with the
\* literal, except where a threshold is itself the result of a subtraction.
Rate(wins, total) == [num |-> wins, den |-> total]

\* a field an entry does not have
NoRate == Rate(0, 0)

\* the initial winRate 0.5 of line 1163
Half == Rate(1, 2)

\* rate >= percent / 100
AtLeastPercent(rate, percent) == 100 * rate.num >= percent * rate.den

\* rate <= (1 - COUNTER_THRESHOLD), line 1258: the double 1 - 0.56 is
\* 0.43999999999999995, below the double of 0.44, so a rate of exactly 0.44
\* fails the test
AtMostReverse(rate) == 100 * rate.num < (100 - CounterPercent) * rate.den

Abs(x) == IF x < 0 THEN 0 - x ELSE x

\* a number as a property key or inside a template literal
PropertyKey(id) == ToString(id)

\* The key of lines 1177-1178 as lines 1230-1234 take it apart: the ids are
\* numbers and a lane name has no underscore, so split gives back the id of
\* the champion, the id of the opponent and the lane, as strings.
SampleKey(id, vsId, lane) ==
    [championId |-> PropertyKey(id), vsChampionId |-> PropertyKey(vsId), lane |-> lane]

\* a variant that counts the wins since the last defeat
updateMatchupStatStreak(statsMap, key, isWin) ==
    IF \E i \in DOMAIN statsMap : statsMap[i].key = key
    THEN LET i == CHOOSE i \in DOMAIN statsMap : statsMap[i].key = key
         IN  [statsMap EXCEPT ![i].total = @ + 1,
                              ![i].wins = IF isWin THEN @ + 1 ELSE 0]
    ELSE Append(statsMap, [key |-> key, wins |-> IF isWin THEN 1 ELSE 0, total |-> 1])

\* lines 1197-1205; the Map is the sequence of its entries in insertion order
updateMatchupStat(statsMap, key, isWin) ==
    LET won == IF isWin THEN 1 ELSE 0
    IN  IF \E i \in DOMAIN statsMap : statsMap[i].key = key
        THEN LET i == CHOOSE i \in DOMAIN statsMap : statsMap[i].key = key
             IN  [statsMap EXCEPT ![i].total = @ + 1, ![i].wins = @ + won]
        ELSE Append(statsMap, [key |-> key, wins |-> won, total |-> 1])

\* a variant that makes a record for a champion it does not find
updateOverallStatsCreates(stats, championId, isWin) ==
    LET k == PropertyKey(championId)
        won == IF isWin THEN 1 ELSE 0
    IN  IF k \in DOMAIN stats
        THEN [stats EXCEPT ![k].overallStats.totalGames = @ + 1,
                           ![k].overallStats.wins = @ + won]
        ELSE [id \in DOMAIN stats \cup {k} |->
                IF id = k
                THEN [id |-> k, name |-> "Unknown", key |-> k,
                      overallStats |-> [totalGames |-> 1, wins |-> won,
                                        winRate |-> Rate(1, 2), isReliable |-> FALSE],
                      counterRelationships |-> [strongCounters |-> <<>>, counters |-> <<>>,
                                                counteredBy |-> <<>>]]
                ELSE stats[id]]

\* lines 1210-1217: championStats[championId] with the id of an observation
updateOverallStats(stats, championId, isWin) ==
    LET k == PropertyKey(championId)
    IN  IF k \in DOMAIN stats
        THEN [stats EXCEPT ![k].overallStats.totalGames = @ + 1,
                           ![k].overallStats.wins = @ + (IF isWin THEN 1 ELSE 0)]
        ELSE stats

\* lines 1154-1173: one record per catalogue champion, keyed by champion.id
InitialStats(catalogue) ==
    [id \in { catalogue[i].id : i \in DOMAIN catalogue } |->
        LET champion == catalogue[CHOOSE i \in DOMAIN catalogue : catalogue[i].id = id]
        IN  [id |-> champion.id, name |-> champion.name, key |-> champion.key,
             overallStats |-> [totalGames |-> 0, wins |-> 0, winRate |-> Half,
                               isReliable |-> FALSE],
             counterRelationships |-> [strongCounters |-> <<>>, counters |-> <<>>,
                                       counteredBy |-> <<>>]]]

\* a variant for which every sample is significant
isSignificantAlways(rate) == TRUE

\* lines 1282-1292 with normalCDF (1297-1299), for a base rate of 0.5:
\* zScore^2 is (2 wins - total)^2 / total, and pValue < 0.05 when it is
\* above 3.656661.  A zScore^2 above 4 is decided without the product, which
\* keeps the numbers inside 32 bits.
isSignificant(rate) ==
    LET square == (2 * rate.num - rate.den) * (2 * rate.num - rate.den)
    IN  IF square > 4 * rate.den THEN TRUE
        ELSE square * 1000000 > SignificanceMillionths * rate.den

\* a variant whose hardest class begins at twice the difference
classifyCounterStrengthLateHard(rate, sampleSize, significant) ==
    LET diff == 100 * Abs(2 * rate.num - rate.den)
    IN  IF ~significant \/ sampleSize < 30 THEN "INSUFFICIENT_DATA"
        ELSE IF diff >= 4 * HardPercent * rate.den THEN "HARD_COUNTER"
        ELSE IF diff > 2 * StrongPercent * rate.den THEN "STRONG_COUNTER"
        ELSE IF diff >= 2 * SoftPercent * rate.den THEN "SOFT_COUNTER"
        ELSE "NEUTRAL"

\* lines 1304-1316.  |winRate - 0.5| is |2 wins - total| / (2 total); the
\* double of 0.6 - 0.5 is 0.09999999999999998, so a difference of exactly
\* 0.10 fails the second test.
classifyCounterStrength(rate, sampleSize, significant) ==
    LET diff == 100 * Abs(2 * rate.num - rate.den)
    IN  IF ~significant \/ sampleSize < 30 THEN "INSUFFICIENT_DATA"
        ELSE IF diff >= 2 * HardPercent * rate.den THEN "HARD_COUNTER"
        ELSE IF diff > 2 * StrongPercent * rate.den THEN "STRONG_COUNTER"
        ELSE IF diff >= 2 * SoftPercent * rate.den THEN "SOFT_COUNTER"
        ELSE "NEUTRAL"

\* championStats[id]?.name || 'Unknown'
NameOf(stats, id) == IF id \in DOMAIN stats THEN stats[id].name ELSE "Unknown"

\* a variant without the sample size test of line 1228
ProcessSampleAnySize(stats, stat) ==
    LET championId == stat.key.championId
        vsChampionId == stat.key.vsChampionId
        winRate == Rate(stat.wins, stat.total)
        significant == isSignificant(winRate)
        counterData ==
            [championId |-> vsChampionId, championName |-> NameOf(stats, vsChampionId),
             lane |-> stat.key.lane, matchupWinRate |-> winRate, enemyWinRate |-> NoRate,
             sampleSize |-> stat.total,
             counterStrength |-> classifyCounterStrength(winRate, stat.total, significant)]
        forward ==
            IF championId \notin DOMAIN stats THEN stats
            ELSE IF AtLeastPercent(winRate, StrongCounterPercent)
            THEN [stats EXCEPT ![championId].counterRelationships.strongCounters =
                                   Append(@, counterData)]
            ELSE IF AtLeastPercent(winRate, CounterPercent)
            THEN [stats EXCEPT ![championId].counterRelationships.counters =
                                   Append(@, counterData)]
            ELSE stats
        reverseCounterData ==
            [counterData EXCEPT !.championId = championId,
                                !.championName = NameOf(stats, championId),
                                !.enemyWinRate = winRate,
                                !.matchupWinRate = Rate(stat.total - stat.wins, stat.total)]
    IN  IF ~significant THEN stats
        ELSE IF AtMostReverse(winRate) /\ vsChampionId \in DOMAIN stats
        THEN [forward EXCEPT ![vsChampionId].counterRelationships.counteredBy =
                                 Append(@, reverseCounterData)]
        ELSE forward

\* lines 1228-1267: what one sample adds to the relationship lists.  The
\* field significance of an entry, the p-value, is a double that only the
\* test of line 1288 reads; it is left out of the entries.
ProcessSample(stats, stat) ==
    LET championId == stat.key.championId
        vsChampionId == stat.key.vsChampionId
        winRate == Rate(stat.wins, stat.total)
        significant == isSignificant(winRate)
        counterData ==
            [championId |-> vsChampionId, championName |-> NameOf(stats, vsChampionId),
             lane |-> stat.key.lane, matchupWinRate |-> winRate, enemyWinRate |-> NoRate,
             sampleSize |-> stat.total,
             counterStrength |-> classifyCounterStrength(winRate, stat.total, significant)]
        forward ==
            IF championId \notin DOMAIN stats THEN stats
            ELSE IF AtLeastPercent(winRate, StrongCounterPercent)
            THEN [stats EXCEPT ![championId].counterRelationships.strongCounters =
                                   Append(@, counterData)]
            ELSE IF AtLeastPercent(winRate, CounterPercent)
            THEN [stats EXCEPT ![championId].counterRelationships.counters =
                                   Append(@, counterData)]
            ELSE stats
        reverseCounterData ==
            [counterData EXCEPT !.championId = championId,
                                !.championName = NameOf(stats, championId),
                                !.enemyWinRate = winRate,
                                !.matchupWinRate = Rate(stat.total - stat.wins, stat.total)]
    IN  IF stat.total < MinSampleSize THEN stats
        ELSE IF ~significant THEN stats
        ELSE IF AtMostReverse(winRate) /\ vsChampionId \in DOMAIN stats
        THEN [forward EXCEPT ![vsChampionId].counterRelationships.counteredBy =
                                 Append(@, reverseCounterData)]
        ELSE forward

\* lines 1227-1268: matchupStats.forEach, over the first n samples
RECURSIVE RelationshipsAfter(_, _, _)
RelationshipsAfter(stats, samples, n) ==
    IF n = 0 THEN stats
    ELSE ProcessSample(RelationshipsAfter(stats, samples, n - 1), samples[n])

\* lines 1271-1276
FinalStats(stats) ==
    [id \in DOMAIN stats |->
        LET overall == stats[id].overallStats
        IN  IF overall.totalGames > 0
            THEN [stats[id] EXCEPT
                    !.overallStats.winRate = Rate(overall.wins, overall.totalGames),
                    !.overallStats.isReliable = (overall.totalGames >= MinSampleSize)]
            ELSE stats[id]]

\* lines 1222-1277
processCounterRelationships(samples, stats) ==
    FinalStats(RelationshipsAfter(stats, samples, Len(samples)))

\* the ids of the champions in the observations: two of the catalogue and
\* one the catalogue does not have
Aatrox == 266
Ahri == 103
Stranger == 777

\* The catalogue as getChampionData builds it from Data Dragon (lines
\* 817-850), where id is the name of the champion and key its number, and a
\* catalogue whose id is the number that match participants carry.
DataDragonCatalogue ==
    << [id |-> "Aatrox", key |-> "266", name |-> "Aatrox"],
       [id |-> "Ahri", key |-> "103", name |-> "Ahri"] >>

NumberedCatalogue ==
    << [id |-> "266", key |-> "266", name |-> "Aatrox"],
       [id |-> "103", key |-> "103", name |-> "Ahri"] >>

Catalogues == {DataDragonCatalogue, NumberedCatalogue}

\* an observation as extractMatchupData builds it (lines 1099-1114)
Observation(lane, id1, win1, id2, win2) ==
    [matchId |-> "JP1_1", lane |-> lane,
     champion1 |-> [id |-> id1, name |-> "Champion" \o ToString(id1), win |-> win1,
                    teamId |-> 100],
     champion2 |-> [id |-> id2, name |-> "Champion" \o ToString(id2), win |-> win2,
                    teamId |-> 200]]

Repeat(x, n) == [i \in 1..n |-> x]

\* The observation lists handed to calculateCounterRelationships: in lane
\* TOP, a games that Aatrox wins against Ahri and b games that Ahri wins
\* against Aatrox, and c games in lane MIDDLE that Aatrox wins against a
\* champion the catalogue does not have.
ObservationList(a, b, c) ==
    Repeat(Observation("TOP", Aatrox, TRUE, Ahri, FALSE), a) \o
    Repeat(Observation("TOP", Ahri, TRUE, Aatrox, FALSE), b) \o
    Repeat(Observation("MIDDLE", Aatrox, TRUE, Stranger, FALSE), c)

\* lines 1149-1173: the call of line 773
CalculateEnter ==
    /\ aPc = "calculate"
    /\ matchupStats' = <<>>
    /\ championStats' = InitialStats(champions)
    /\ matchupIdx' = 1
    /\ aPc' = "aggregate"
    /\ UNCHANGED <<matchData, laneGroups, matchups, champions, repeatVars, pipelineVars>>
    /\ UNCHANGED <<fetchVars, collectVars, discoverVars>>

\* lines 1176-1186: one observation of matchups.forEach
AggregateNext ==
    /\ aPc = "aggregate"
    /\ matchupIdx <= Len(matchups)
    /\ LET matchup == matchups[matchupIdx]
           key1 == SampleKey(matchup.champion1.id, matchup.champion2.id, matchup.lane)
           key2 == SampleKey(matchup.champion2.id, matchup.champion1.id, matchup.lane)
       IN  /\ matchupStats' =
                 updateMatchupStat(
                    updateMatchupStat(matchupStats, key1, matchup.champion1.win),
                    key2, matchup.champion2.win)
           /\ championStats' =
                 updateOverallStats(
                    updateOverallStats(championStats, matchup.champion1.id,
                                       matchup.champion1.win),
                    matchup.champion2.id, matchup.champion2.win)
    /\ matchupIdx' = matchupIdx + 1
    /\ UNCHANGED <<matchData, laneGroups, matchups, champions, aPc, repeatVars,
                   pipelineVars>>
    /\ UNCHANGED <<fetchVars, collectVars, discoverVars>>

\* lines 1189-1191: processCounterRelationships, and the return
ProcessCall ==
    /\ aPc = "aggregate"
    /\ matchupIdx > Len(matchups)
    /\ championStats' = processCounterRelationships(matchupStats, championStats)
    /\ aPc' = "calculated"
    /\ UNCHANGED <<matchData, laneGroups, matchups, champions, matchupIdx, matchupStats,
                   repeatVars, pipelineVars>>
    /\ UNCHANGED <<fetchVars, collectVars, discoverVars>>

calculateCounterRelationships == CalculateEnter \/ AggregateNext \/ ProcessCall

\* The smallest sample with a win rate of exactly COUNTER_THRESHOLD that
\* passes the significance test: 154 wins of 275 games are 0.56, and the
\* 121 wins of the opponent are 0.44, the value line 1258 compares with
\* 1 - COUNTER_THRESHOLD.
AtThresholdWins == 154
AtThresholdLosses == 121

InitStats ==
    /\ InitFetch
    /\ CollectIdle
    /\ DiscoverIdle
    /\ matchData = <<>>
    /\ laneGroups = NoGroups
    /\ \/ \E a, b \in 0..MaxGames : \E c \in {0, 2} : matchups = ObservationList(a, b, c)
       \/ matchups = ObservationList(AtThresholdWins, AtThresholdLosses, 0)
    /\ champions \in Catalogues
    /\ PipelineIdle
    /\ RepeatIdle
    /\ matchupIdx = 0
    /\ matchupStats = <<>>
    /\ championStats = <<>>
    /\ aPc = "calculate"

NextStats == calculateCounterRelationships

SpecStats == InitStats /\ [][NextStats]_vars

\* ---------------------------------------------------------------------
\* calculateCounterRelationships called on a list and then on the same
\* observations in another order
\* ---------------------------------------------------------------------

Reverse(seq) == [i \in 1..Len(seq) |-> seq[Len(seq) + 1 - i]]

\* the elements after the first k, then the first k
Rotate(seq, k) == SubSeq(seq, k + 1, Len(seq)) \o SubSeq(seq, 1, k)

\* the elements at the odd positions, then those at the even positions
OddsThenEvens(seq) ==
    [i \in 1..((Len(seq) + 1) \div 2) |-> seq[2 * i - 1]] \o
    [i \in 1..(Len(seq) \div 2) |-> seq[2 * i]]

\* the sizes of the three blocks of an observation list: none, too few for
\* a relationship, enough for one
BlockSizes == {0, 2, MinSampleSize}

\* the orderings of a list the second call is given: the list itself,
\* backwards, and with a part of the front moved to the back
Orderings(seq) ==
    {seq, Reverse(seq), OddsThenEvens(seq)} \cup
    { Rotate(seq, k) : k \in BlockSizes \cap (0..Len(seq)) }

\* the caller keeps the returned mapping and calls again with the other
\* ordering
CallAgain ==
    /\ aPc = "calculated"
    /\ calls = 0
    /\ firstResult' = championStats
    /\ calls' = 1
    /\ matchups' = reordered
    /\ aPc' = "calculate"
    /\ UNCHANGED <<matchData, laneGroups, champions, matchupIdx, matchupStats,
                   championStats, reordered, pipelineVars>>
    /\ UNCHANGED <<fetchVars, collectVars, discoverVars>>

InitOrder ==
    /\ InitFetch
    /\ CollectIdle
    /\ DiscoverIdle
    /\ matchData = <<>>
    /\ laneGroups = NoGroups
    /\ \E a, b, c \in BlockSizes : matchups = ObservationList(a, b, c)
    /\ reordered \in Orderings(matchups)
    /\ firstResult = <<>>
    /\ calls = 0
    /\ PipelineIdle
    /\ champions \in Catalogues
    /\ matchupIdx = 0
    /\ matchupStats = <<>>
    /\ championStats = <<>>
    /\ aPc = "calculate"

NextOrder == calculateCounterRelationships \/ CallAgain

SpecOrder == InitOrder /\ [][NextOrder]_vars

\* ---------------------------------------------------------------------
\* ApiClient.makeDdragonRequest (api-client.js:703-719)
\* ---------------------------------------------------------------------

\* this.endpoints.ddragonVersions
ddragonVersions == [kind |-> "versions", arg |-> ""]
\* .../cdn/<version>/data/ja_JP/champion.json
championList(v) == [kind |-> "championList", arg |-> v]
\* .../cdn/<version>/data/ja_JP/champion/<championKey>.json
championDetail(championKey) == [kind |-> "championDetail", arg |-> championKey]

\* the version Data Dragon lists first, and the fallback of line 810
LatestVersion == "15.13.1"
FallbackVersion == "15.12.1"

\* a champion of Data Dragon: id is its name, key its number as a string;
\* detailed tells the record of the detail document from that of the list
Champion(id, key, tags, detailed) ==
    [id |-> id, key |-> key, name |-> id, tags |-> tags, detailed |-> detailed]

\* champion.json: the property keys of data are the ids of the champions
ChampionList ==
    << Champion("Aatrox", "266", <<"Fighter">>, FALSE),
       Champion("Ahri", "103", <<"Mage", "Assassin">>, FALSE) >>

\* the documents Data Dragon may answer a request for u with; a document
\* without data is one that parses and is not what the caller expects
DdragonBodies(u) ==
    CASE u.kind = "versions" ->
            {[NoDocument EXCEPT !.versions = <<LatestVersion, FallbackVersion>>]}
      [] u.kind = "championList" ->
            {NoDocument, [NoDocument EXCEPT !.hasData = TRUE, !.data = ChampionList]}
      [] u.kind = "championDetail" ->
            {NoDocument} \cup
            { [NoDocument EXCEPT !.hasData = TRUE,
                                 !.data = <<[ChampionList[i] EXCEPT !.detailed = TRUE]>>] :
                 i \in { j \in DOMAIN ChampionList : ChampionList[j].id = u.arg } }
      [] OTHER -> {NoDocument}

\* the messages of the errors makeDdragonRequest rejects with
DdragonErrors == {"HTTP 403: Forbidden", "HTTP 404: Not Found"}

\* line 705: the call, seen from a caller that has taken the outcome of the
\* call before it, if there was one
DdragonCall(u) ==
    /\ ddPc \in {"idle", "returned", "thrown"}
    /\ ddPc' = "send"
    /\ ddUrl' = u
    /\ ddResult' = NoDocument
    /\ ddError' = ""
    /\ UNCHANGED ddSends

\* the caller has taken the outcome of the call and calls no more
DdragonConsumed ==
    /\ ddPc \in {"returned", "thrown"}
    /\ ddPc' = "idle"
    /\ ddUrl' = NoUrl
    /\ ddResult' = NoDocument
    /\ ddError' = ""
    /\ UNCHANGED ddSends

\* what a step of makeDdragonRequest leaves alone
DdragonFrame ==
    /\ UNCHANGED <<fetchVars, collectVars, discoverVars>>
    /\ UNCHANGED <<matchData, laneGroups, matchups, champions, matchupIdx, matchupStats,
                   championStats, aPc, repeatVars>>
    /\ UNCHANGED <<faPc, isProd, version, errors, gameStats, catalogueVars>>

\* a variant that records the request in the rate-limit log
DdragonSendRecorded ==
    /\ ddPc = "send"
    /\ ddPc' = "fetching"
    /\ ddSends' = ddSends + 1
    /\ requests' = Append(requests, now)
    /\ callCount' = callCount + 1
    /\ UNCHANGED <<ddUrl, ddResult, ddError>>
    /\ UNCHANGED <<now, totalRequests, mrPc, callVars, sendVars, checks>>
    /\ UNCHANGED <<collectVars, discoverVars>>
    /\ UNCHANGED <<matchData, laneGroups, matchups, champions, matchupIdx, matchupStats,
                   championStats, aPc, repeatVars>>
    /\ UNCHANGED <<faPc, isProd, version, errors, gameStats, catalogueVars>>

\* line 707: fetch(url) is called
DdragonSend ==
    /\ ddPc = "send"
    /\ ddPc' = "fetching"
    /\ ddSends' = ddSends + 1
    /\ UNCHANGED <<ddUrl, ddResult, ddError>>
    /\ DdragonFrame

\* lines 709-713: the response is ok and its body parses
DdragonOk(document) ==
    /\ ddPc = "fetching"
    /\ ddPc' = "returned"
    /\ ddResult' = document
    /\ UNCHANGED <<ddUrl, ddError, ddSends>>
    /\ DdragonFrame

\* lines 709-711 and 715-717: the response is not ok
DdragonNotOk(message) ==
    /\ ddPc = "fetching"
    /\ ddPc' = "thrown"
    /\ ddError' = message
    /\ UNCHANGED <<ddUrl, ddResult, ddSends>>
    /\ DdragonFrame

\* line 707 rejects, or line 713 does: no response, or a body that is no
\* JSON document; lines 715-717 log and rethrow
DdragonFails ==
    /\ ddPc = "fetching"
    /\ ddPc' = "thrown"
    /\ \E message \in {"fetch failed", "Unexpected token"} : ddError' = message
    /\ UNCHANGED <<ddUrl, ddResult, ddSends>>
    /\ DdragonFrame

makeDdragonRequest ==
    \/ DdragonSend
    \/ \E document \in DdragonBodies(ddUrl) : DdragonOk(document)
    \/ \E message \in DdragonErrors : DdragonNotOk(message)
    \/ DdragonFails

\* ---------------------------------------------------------------------
\* ApiClient.fetchAllData with getLatestVersion and getChampionData
\* (api-client.js:724-850)
\* ---------------------------------------------------------------------

\* what the steps of fetchAllData before the discovery leave alone
CatalogueFrame ==
    /\ UNCHANGED <<requests, callCount, totalRequests, mrPc, callVars, sendVars, checks>>
    /\ UNCHANGED <<collectVars, discoverVars>>
    /\ UNCHANGED <<matchData, laneGroups, matchups, matchupIdx, matchupStats,
                   championStats, aPc, repeatVars>>
    /\ UNCHANGED <<isProd, ddSends>>

\* lines 725-752 and 806: the object is built and the version list asked for
FetchAllEnter ==
    /\ faPc = "call"
    /\ version' = ""
    /\ errors' = <<>>
    /\ gameStats' = <<>>
    /\ champions' = <<>>
    /\ DdragonCall(ddragonVersions)
    /\ faPc' = "version"
    /\ UNCHANGED <<now, catalogueVars>>
    /\ CatalogueFrame

\* lines 806-807, 752-756 and 818-819: the latest version, and the request for
\* the champion list of that version
VersionReturned ==
    /\ faPc = "version" /\ ddPc = "returned"
    /\ version' = ddResult.versions[1]
    /\ DdragonCall(championList(ddResult.versions[1]))
    /\ faPc' = "catalogue"
    /\ UNCHANGED <<now, errors, gameStats, champions, catalogueVars>>
    /\ CatalogueFrame

\* lines 808-810: the version list failed, the fallback version is taken
VersionFailed ==
    /\ faPc = "version" /\ ddPc = "thrown"
    /\ version' = FallbackVersion
    /\ DdragonCall(championList(FallbackVersion))
    /\ faPc' = "catalogue"
    /\ UNCHANGED <<now, errors, gameStats, champions, catalogueVars>>
    /\ CatalogueFrame

\* lines 789-797: the catch of fetchAllData
Caught(message) ==
    /\ errors' = Append(errors, message)
    /\ faPc' = "returned"

\* lines 819-831: the champion list is there and the first detail request is
\* made.  A document without data makes line 823 throw a TypeError, which
\* nothing catches before fetchAllData does.
CatalogueReturned ==
    /\ faPc = "catalogue" /\ ddPc = "returned"
    /\ IF ddResult.hasData /\ ddResult.data # <<>>
       THEN /\ championData' = ddResult.data
            /\ detailedChampions' = <<>>
            /\ detailIdx' = 1
            /\ DdragonCall(championDetail(ddResult.data[1].id))
            /\ faPc' = "details"
            /\ UNCHANGED errors
       ELSE /\ Caught("TypeError")
            /\ DdragonConsumed
            /\ UNCHANGED catalogueVars
    /\ UNCHANGED <<now, version, gameStats, champions>>
    /\ CatalogueFrame

\* line 819 rejects: getChampionData rejects and fetchAllData catches
CatalogueFailed ==
    /\ faPc = "catalogue" /\ ddPc = "thrown"
    /\ Caught(ddError)
    /\ DdragonConsumed
    /\ UNCHANGED <<now, version, gameStats, champions, catalogueVars>>
    /\ CatalogueFrame

\* Lines 840-849, after a champion was stored: the next detail request, after
\* the pause of line 845 when a batch is complete, or the return of
\* getChampionData and lines 756-757.  The requests of a batch are in flight
\* together; they share no state, and they are taken one after the other here.
AfterDetail(stored) ==
    /\ detailedChampions' = stored
    /\ IF detailIdx < Len(championData)
       THEN /\ detailIdx' = detailIdx + 1
            /\ DdragonCall(championDetail(championData[detailIdx + 1].id))
            /\ now' = IF detailIdx % DetailBatch = 0 THEN now + BatchPause ELSE now
            /\ UNCHANGED <<faPc, champions>>
       ELSE /\ champions' = stored
            /\ faPc' = "catalogued"
            /\ DdragonConsumed
            /\ UNCHANGED <<now, detailIdx>>
    /\ UNCHANGED <<version, errors, gameStats, championData>>
    /\ CatalogueFrame

\* a variant without the catch of line 834: a failed detail request makes
\* getChampionData reject
ChampionDetailFailedAborts ==
    /\ faPc = "details"
    /\ ddPc = "thrown"
    /\ Caught(ddError)
    /\ DdragonConsumed
    /\ UNCHANGED <<now, version, gameStats, champions, catalogueVars>>
    /\ CatalogueFrame

\* lines 834-837: the detail request failed, the record of the list is kept
ChampionDetailFailed ==
    /\ faPc = "details"
    /\ ddPc = "thrown"
    /\ AfterDetail(Append(detailedChampions, championData[detailIdx]))

\* lines 830-833: the detail document is there.  Without data line 833
\* throws a TypeError and the catch of line 834 takes over.
ChampionDetailReturned ==
    /\ faPc = "details"
    /\ ddPc = "returned"
    /\ AfterDetail(Append(detailedChampions,
                          IF ddResult.hasData THEN ddResult.data[1]
                          ELSE championData[detailIdx]))

\* what the steps of fetchAllData after the catalogue leave alone
PhaseFrame ==
    /\ UNCHANGED <<fetchVars, repeatVars, ddVars, catalogueVars>>
    /\ UNCHANGED <<isProd, version, errors, champions>>

\* lines 760-761: production mode, getHighEloPlayers is called
StartDiscover ==
    /\ faPc = "catalogued" /\ isProd
    /\ dPc' = "call"
    /\ faPc' = "discover"
    /\ UNCHANGED <<tierIdx, eloPlayers, resolveIdx, highEloPlayers, tierAnswers,
                   resolutions>>
    /\ UNCHANGED <<collectVars, gameStats>>
    /\ UNCHANGED <<matchData, laneGroups, matchups, matchupIdx, matchupStats,
                   championStats, aPc>>
    /\ PhaseFrame

\* lines 761-765: getHighEloPlayers returned, collectRankedMatches is called
StartCollect ==
    /\ faPc = "discover" /\ dPc = "done"
    /\ players' = [i \in DOMAIN highEloPlayers |-> highEloPlayers[i].puuid]
    /\ cPc' = "call"
    /\ faPc' = "collect"
    /\ UNCHANGED <<playerIdx, matchIds, idIdx, allMatches, seenMatchIds, targetMatches,
                   acceptedIds, discardedIds>>
    /\ UNCHANGED <<discoverVars, gameStats>>
    /\ UNCHANGED <<matchData, laneGroups, matchups, matchupIdx, matchupStats,
                   championStats, aPc>>
    /\ PhaseFrame

\* lines 765-769: collectRankedMatches returned, extractMatchupData is called
StartExtract ==
    /\ faPc = "collect" /\ cPc = "done"
    /\ matchData' = allMatches
    /\ aPc' = "extract"
    /\ faPc' = "extract"
    /\ UNCHANGED <<collectVars, discoverVars, gameStats>>
    /\ UNCHANGED <<laneGroups, matchups, matchupIdx, matchupStats, championStats>>
    /\ PhaseFrame

\* lines 769-773: extractMatchupData returned, calculateCounterRelationships
\* is called
StartCalculate ==
    /\ faPc = "extract" /\ aPc = "extracted"
    /\ aPc' = "calculate"
    /\ faPc' = "calculate"
    /\ UNCHANGED <<collectVars, discoverVars, gameStats>>
    /\ UNCHANGED <<matchData, laneGroups, matchups, matchupIdx, matchupStats,
                   championStats>>
    /\ PhaseFrame

\* lines 773 and 782-787: calculateFinalStats hands processedCounters back
\* as it is (lines 1321-1323), and the object is returned
FetchAllReturn ==
    /\ faPc = "calculate" /\ aPc = "calculated"
    /\ gameStats' = championStats
    /\ faPc' = "returned"
    /\ UNCHANGED <<collectVars, discoverVars>>
    /\ UNCHANGED <<matchData, laneGroups, matchups, matchupIdx, matchupStats,
                   championStats, aPc>>
    /\ PhaseFrame

\* the elements of a sequence without repetitions, each at the place of
\* its first occurrence: [...new Set(seq)]
Distinct(seq) ==
    LET first == { i \in DOMAIN seq : \A j \in 1..(i - 1) : seq[j] # seq[i] }
    IN  [k \in 1..Cardinality(first) |->
            seq[CHOOSE i \in first : Cardinality({ j \in first : j <= i }) = k]]

\* counterMap of lines 1369-1382, for the tags of the catalogue
CounterMap(tag) ==
    CASE tag = "Assassin" -> <<"Malphite", "Rammus", "Tahm Kench", "Janna", "Lulu">>
      [] tag = "Fighter" -> <<"Vayne", "Fiora", "Jax", "Gnar", "Quinn">>
      [] tag = "Mage" -> <<"Kassadin", "Yasuo", "Katarina", "Fizz", "Zed">>
      [] OTHER -> <<>>

\* lines 1384-1399: strongAgainst of generateCounterData; getSpecificCounters
\* has nothing for the names of the catalogue
RECURSIVE CountersOfTags(_)
CountersOfTags(tags) ==
    IF tags = <<>> THEN <<>>
    ELSE CountersOfTags(SubSeq(tags, 1, Len(tags) - 1)) \o CounterMap(tags[Len(tags)])

StrongAgainst(champion) ==
    LET all == Distinct(CountersOfTags(champion.tags))
    IN  SubSeq(all, 1, Min(5, Len(all)))

\* lines 1328-1363
generateSampleCounters(catalogue) ==
    [id \in { catalogue[i].id : i \in DOMAIN catalogue } |->
        LET champion == catalogue[CHOOSE i \in DOMAIN catalogue : catalogue[i].id = id]
            names == SubSeq(StrongAgainst(champion), 1, Min(2, Len(StrongAgainst(champion))))
        IN  [id |-> champion.id, name |-> champion.name, key |-> champion.key,
             overallStats |-> [totalGames |-> 150, wins |-> 75, winRate |-> Half,
                               isReliable |-> TRUE],
             counterRelationships |->
                [strongCounters |->
                    [k \in DOMAIN names |->
                        [championId |-> "1", championName |-> names[k], lane |-> "MIDDLE",
                         matchupWinRate |-> Rate(67, 100), enemyWinRate |-> NoRate,
                         sampleSize |-> 89, counterStrength |-> "STRONG_COUNTER"]],
                 counters |-> <<>>, counteredBy |-> <<>>]]]

\* lines 774-787: development mode, the canned data, and the return.  The
\* one match of getSampleMatchData is read by nothing but the counters of
\* lines 783-784 and is left out.
DevelopmentMode ==
    /\ faPc = "catalogued" /\ ~isProd
    /\ championStats' = generateSampleCounters(champions)
    /\ gameStats' = generateSampleCounters(champions)
    /\ faPc' = "returned"
    /\ UNCHANGED <<collectVars, discoverVars>>
    /\ UNCHANGED <<matchData, laneGroups, matchups, matchupIdx, matchupStats, aPc>>
    /\ PhaseFrame

fetchAllData ==
    \/ FetchAllEnter
    \/ VersionReturned
    \/ VersionFailed
    \/ CatalogueReturned
    \/ CatalogueFailed
    \/ ChampionDetailReturned
    \/ ChampionDetailFailed
    \/ StartDiscover
    \/ StartCollect
    \/ StartExtract
    \/ StartCalculate
    \/ FetchAllReturn
    \/ DevelopmentMode

\* a match of ten participants, two in each lane, one of each team
TenParticipants ==
    [i \in 1..FullParticipants |-> Participant(i, Lanes[(i + 1) \div 2], "")]

MatchDocument(matchId) ==
    [matchId |-> matchId, hasInfo |-> TRUE, queueId |-> RankedSoloQueue,
     gameMode |-> "CLASSIC", gameDuration |-> MinDuration, hasParticipants |-> TRUE,
     participants |-> TenParticipants]

\* The documents the server answers the requests of a whole run with: one
\* challenger and one grandmaster and no master, a summoner with or without
\* puuid, one match identifier for every player, and for the match a record
\* that passes isValidMatch or one of another game mode.
RunBodies(u) ==
    CASE u.kind = "league" ->
            {[NoData EXCEPT !.hasEntries = TRUE,
                            !.entries = IF u.arg = "MASTER" THEN <<>>
                                        ELSE <<LeagueEntry(u.arg, 1, 300)>>]}
      [] u.kind = "summoner" -> {NoData, [NoData EXCEPT !.puuid = PuuidOf(u.arg)]}
      [] u.kind = "matchIds" -> {[NoData EXCEPT !.ids = <<"JP1_1">>]}
      [] u.kind = "match" ->
            {[NoData EXCEPT !.match = MatchDocument(u.arg)],
             [NoData EXCEPT !.match = [MatchDocument(u.arg) EXCEPT !.gameMode = "ARAM"]]}
      [] OTHER -> {NoData}

\* fetchAllData is called once (build.js), in production or development mode
InitRun ==
    /\ InitFetch
    /\ CollectIdle
    /\ DiscoverIdle
    /\ RepeatIdle
    /\ matchData = <<>>
    /\ laneGroups = NoGroups
    /\ matchups = <<>>
    /\ champions = <<>>
    /\ matchupIdx = 0
    /\ matchupStats = <<>>
    /\ championStats = <<>>
    /\ aPc = "idle"
    /\ faPc = "call"
    /\ isProd \in BOOLEAN
    /\ version = ""
    /\ errors = <<>>
    /\ gameStats = <<>>
    /\ DdragonIdle
    /\ championData = <<>>
    /\ detailedChampions = <<>>
    /\ detailIdx = 0

\* Every request of the run may fail, at the network or with an error
\* status; HTTP 429 stays inside makeRequest and is exercised by Spec.
NextRun ==
    \/ fetchAllData
    \/ makeDdragonRequest
    \/ getHighEloPlayers
    \/ collectRankedMatches
    \/ ExtractCall
    \/ calculateCounterRelationships
    \/ checkRateLimit
    \/ FetchSend
    \/ FetchFails
    \/ \E answer \in ErrorAnswers : ReceiveError(answer[1], answer[2])
    \/ \E data \in RunBodies(url) : ReceiveOk(data)

SpecRun == InitRun /\ [][NextRun]_vars /\ WF_vars(NextRun)

\* ---------------------------------------------------------------------
\* Properties of the fetch client (specification Spec)
\* ---------------------------------------------------------------------

Last(seq) == seq[Len(seq)]

\* the network calls issued in the window of the given length that ends with
\* the latest call.  Every window that holds a call is part of the window
\* that ends with the last call in it, and sent holds every call of the two
\* minutes before the latest one, so bounding these windows in every state
\* bounds every window.
CallsInWindow(length) == Len(NewerThan(sent, Last(sent) - length))

\* C1: with calls issued one at a time, at most PerSecondLimit network
\* calls are sent within any one-second window and at most TwoMinuteLimit
\* within any two-minute window, whatever the outcome of each call.
C1_QuotasRespected ==
    sent # <<>> =>
        /\ CallsInWindow(OneSecond) <= PerSecondLimit
        /\ CallsInWindow(TwoMinutes) <= TwoMinuteLimit

\* every network call so far was answered (none failed at network level)
AllAnswered == callCount + (IF mrPc = "fetching" THEN 1 ELSE 0) = sendCount

\* the quotas of C1 hold as long as every network call is answered
QuotasRespectedWhenAnswered == AllAnswered => C1_QuotasRespected

\* C2: every network call that checkRateLimit let through adds exactly one
\* timestamp to the request log when it ends, whether a response was
\* received or the call failed at network level.
C2_EveryGrantedRequestLogged ==
    [][(mrPc = "fetching" /\ mrPc' # "fetching") => requests' = Append(requests, now)]_vars

\* C7: every network call of makeRequest is preceded by a checkRateLimit
\* call that returned for that same attempt, on the first attempt and on
\* every retry: the calls sent never outnumber the checks returned, and a
\* check returned is followed by its network call before the next check.
C7_CheckBeforeEveryCall ==
    checks = sendCount + (IF mrPc = "send" THEN 1 ELSE 0)

\* a retry after HTTP 429 is in flight
C7_Witness == mrPc = "fetching" /\ retries >= 1 /\ checks >= 2

\* the number of seconds a Retry-After header gives, 1 when there is none
HeaderSeconds(header) ==
    IF ~header.present \/ header.value = <<>> THEN 1 ELSE Decimal(header.value)

\* C8: after HTTP 429 makeRequest waits the seconds the Retry-After header
\* gives (1 without the header) and only then sends a request again, to the
\* same url with the same options; the call does not fail with the 429.
C8_RetryAfterHonoured ==
    /\ (mrPc = "fetching" /\ retries >= 1) =>
          /\ lastSent.url = last429.url
          /\ lastSent.options = last429.options
          /\ Last(sent) >= last429.at + HeaderSeconds(last429.retryAfter) * OneSecond
    /\ mrPc = "thrown" => response.status # 429

\* a retry is in flight after a 429 that asked for two seconds, for a call
\* made with options
C8_Witness ==
    /\ mrPc = "fetching" /\ retries >= 1
    /\ last429.retryAfter = [present |-> TRUE, value |-> <<2>>]
    /\ lastSent.options # DefaultOptions

C10_ErrorEndsCall ==
    [][ /\ (mrPc = "fetching" /\ mrPc' # "fetching" /\ response'.status = 0)
             => mrPc' = "thrown"
        /\ (mrPc = "fetching" /\ mrPc' # "fetching"
              /\ response'.status \notin {0, 429} /\ ~Ok(response'.status))
             => /\ mrPc' = "thrown"
                /\ error' = [kind |-> "http", status |-> response'.status,
                             text |-> response'.text]
        /\ mrPc = "thrown" => (sendCount' = sendCount /\ mrPc' \in {"thrown", "idle"})
      ]_vars

\* a retry was answered with status 500 and the call failed with it
C10_Witness ==
    /\ mrPc = "thrown" /\ retries = 1
    /\ error = [kind |-> "http", status |-> 500, text |-> "Internal error"]

\* ---------------------------------------------------------------------
\* Properties of checkRateLimit (specifications SpecCheck and Spec)
\* ---------------------------------------------------------------------

InCheck == mrPc \in {"check", "coolDown", "longSleep"}

\* C11: every call of checkRateLimit returns, whatever the request log
\* holds when it is called: it goes through at most the cool-down and then
\* the two-minute sleep, each of a fixed length, never fails, and leaves
\* the call, the call counter and the network alone.
C11_CheckAlwaysReturns ==
    /\ (mrPc = "check") ~> (mrPc = "send")
    /\ [][ InCheck =>
             /\ mrPc = "check" => mrPc' \in {"coolDown", "longSleep", "send"}
             /\ mrPc = "coolDown" => mrPc' \in {"longSleep", "send"}
             /\ mrPc = "longSleep" => mrPc' = "send"
             /\ now' \in {now, now + CoolDown, now + TwoMinuteSleep}
             /\ error' = NoError
             /\ UNCHANGED <<callCount, callVars, sendVars>> ]_vars

\* a call returned after both sleeps, with the log reset
C11_Witness ==
    /\ mrPc = "send" /\ checks = 1
    /\ requests = <<>>
    /\ now > MaxTime + TwoMinuteSleep

\* C12: checkRateLimit returns without sleeping when the log holds fewer
\* timestamps of the last second than the per-second quota and fewer of the
\* last two minutes than the two-minute quota, so the first calls up to the
\* per-second quota are not delayed; with the per-second quota recorded
\* within the last second the call sleeps the cool-down before it returns.
C12_SleepsOnlyAtQuota ==
    /\ [][ mrPc = "check" =>
             LET recent == Len(SelectSeq(requests, LAMBDA t : t > now - OneSecond))
                 total == Len(SelectSeq(requests, LAMBDA t : t > now - TwoMinutes))
             IN  /\ (recent < PerSecondLimit /\ total < TwoMinuteLimit)
                      => (mrPc' = "send" /\ now' = now)
                 /\ recent >= PerSecondLimit => mrPc' = "coolDown" ]_vars
    /\ [][ mrPc = "coolDown" =>
             (now' = now + CoolDown /\ mrPc' \in {"longSleep", "send"}) ]_vars
    /\ [](mrPc \in {"coolDown", "longSleep"} => callCount >= PerSecondLimit)

\* the call after PerSecondLimit calls made at time 0 has returned, one
\* cool-down later
C12_Witness ==
    /\ mrPc = "send"
    /\ callCount = PerSecondLimit /\ checks = PerSecondLimit + 1
    /\ now = CoolDown

\* ---------------------------------------------------------------------
\* Properties of the collector (specification SpecCollect)
\* ---------------------------------------------------------------------

\* C3: an identifier whose record was fetched and discarded by the filter
\* is not requested a second time in the same collectRankedMatches run.
C3_DiscardedNotRefetched ==
    cPc = "awaitDetail" => matchIds[idIdx] \notin discardedIds

NoDuplicates(seq) ==
    \A i, j \in DOMAIN seq : i # j => seq[i] # seq[j]

\* C4: no match-detail request is issued for an identifier of the seen-set,
\* and no two elements of allMatches were accepted under one identifier.
C4_SeenNeverRequested ==
    /\ cPc = "awaitDetail" => matchIds[idIdx] \notin seenMatchIds
    /\ NoDuplicates(acceptedIds)
    /\ Len(acceptedIds) = Len(allMatches)

\* two matches are accepted and the current list repeats an accepted identifier
C4_Witness ==
    /\ Len(allMatches) = 2
    /\ \E i \in DOMAIN matchIds : i < idIdx /\ matchIds[i] = acceptedIds[1]
    /\ matchIds # <<>> /\ Last(matchIds) = acceptedIds[2]

\* C5: allMatches never holds more than targetMatches elements, the target
\* being the smaller of the cap and the per-player share of the players, and
\* from the moment the target is reached no network call is issued, not
\* even for the rest of the identifier list at hand.
C5_StopsAtTarget ==
    /\ [](/\ Len(allMatches) <= targetMatches
          /\ cPc # "call" =>
                /\ targetMatches <= MaxTargetMatches
                /\ targetMatches <= Len(players) * MatchesPerPlayer
                /\ targetMatches \in {MaxTargetMatches, Len(players) * MatchesPerPlayer})
    /\ [][(cPc # "call" /\ Len(allMatches) >= targetMatches) => sendCount' = sendCount]_vars

\* the target is reached in the middle of a list, before an identifier that
\* is not in the seen-set
C5_Witness ==
    /\ targetMatches > 0 /\ Len(allMatches) = targetMatches
    /\ cPc = "ids" /\ idIdx <= Len(matchIds)
    /\ matchIds[idIdx] \notin seenMatchIds

\* C6: every element of allMatches has exactly 10 participants, queue 420,
\* game mode CLASSIC and a duration from 900 to 3600; a fetched record
\* that fails one of these is not in the list.
C6_OnlyValidMatches ==
    \A i \in DOMAIN allMatches :
        LET m == allMatches[i]
        IN  /\ m.hasInfo /\ m.hasParticipants
            /\ Len(m.participants) = 10
            /\ m.queueId = 420
            /\ m.gameMode = "CLASSIC"
            /\ 900 <= m.gameDuration /\ m.gameDuration <= 3600

\* the run ended with a match of each boundary duration, after a discard
C6_Witness ==
    /\ cPc = "done"
    /\ \E i \in DOMAIN allMatches : allMatches[i].gameDuration = 900
    /\ \E i \in DOMAIN allMatches : allMatches[i].gameDuration = 3600
    /\ discardedIds # {}

\* C13: a failure inside collectRankedMatches is isolated.  When the
\* identifier-list request of a player fails the collector goes on with the
\* next player, when a match-detail request fails it goes on with the next
\* identifier of the same player, in both cases with what it has collected;
\* and the collector ends only with the target reached or every player
\* processed.
C13_FailuresIsolated ==
    /\ [][ (cPc = "awaitIds" /\ mrPc = "thrown" /\ cPc' # cPc) =>
              /\ cPc' = "players" /\ playerIdx' = playerIdx + 1
              /\ UNCHANGED <<allMatches, seenMatchIds, players, targetMatches>> ]_vars
    /\ [][ (cPc = "awaitDetail" /\ mrPc = "thrown" /\ cPc' # cPc) =>
              /\ cPc' = "ids" /\ idIdx' = idIdx + 1
              /\ UNCHANGED <<playerIdx, matchIds, allMatches, seenMatchIds, players,
                             targetMatches>> ]_vars
    /\ [](cPc = "done" =>
             (Len(allMatches) >= targetMatches \/ playerIdx > Len(players)))
    /\ [][cPc = "done" => UNCHANGED <<cPc, allMatches>>]_vars

\* the request for the first identifier of a list failed and the record of
\* the second one was accepted
C13_Witness ==
    /\ cPc = "ids" /\ idIdx = 3
    /\ matchIds[1] # matchIds[2]
    /\ allMatches # <<>> /\ acceptedIds = <<matchIds[2]>>
    /\ discardedIds = {}

\* ---------------------------------------------------------------------
\* Properties of the discovery (specification SpecDiscover)
\* ---------------------------------------------------------------------

\* the summonerIds of a list of entries or players
IdsOf(list) == { list[i].summonerId : i \in DOMAIN list }

\* the summonerIds whose resolution was requested
Requested == { id \in SummonerIds : resolutions[id] # "none" }

\* C14: a failed tier query or a failed resolution does not end
\* getHighEloPlayers.  When it returns every tier was queried; of each tier
\* that answered as many entries as the cap allows were resolved, of a tier
\* that did not answer none; and the list returned holds, once each, exactly
\* the entries whose resolution gave a puuid, each with that puuid.
C14_DiscoveryIsolatesFailures ==
    dPc = "done" =>
        /\ \A t \in DOMAIN Tiers : tierAnswers[t].asked
        /\ \A t \in DOMAIN Tiers :
              LET asked == Requested \cap IdsOf(tierAnswers[t].entries)
              IN  Cardinality(asked) =
                     Min(TierCap(Tiers[t]), Len(tierAnswers[t].entries))
        /\ Requested \subseteq
              UNION { IdsOf(tierAnswers[t].entries) : t \in DOMAIN Tiers }
        /\ IdsOf(highEloPlayers) = { id \in SummonerIds : resolutions[id] = "resolved" }
        /\ Cardinality(IdsOf(highEloPlayers)) = Len(highEloPlayers)
        /\ \A i \in DOMAIN highEloPlayers :
              /\ highEloPlayers[i].puuid # ""
              /\ highEloPlayers[i].puuid = PuuidOf(highEloPlayers[i].summonerId)

\* discovery returned a master player although the grandmaster query
\* failed, one resolution failed and one gave no puuid
C14_Witness ==
    /\ dPc = "done"
    /\ ~tierAnswers[2].answered
    /\ \E id \in SummonerIds : resolutions[id] = "failed"
    /\ \E id \in SummonerIds : resolutions[id] = "noPuuid"
    /\ \E i \in DOMAIN highEloPlayers : highEloPlayers[i].tier = "MASTER"

TierRank(tier) == CHOOSE t \in DOMAIN Tiers : Tiers[t] = tier

\* C15: the list returned is tier-major (challenger, grandmaster, master),
\* within a tier in non-increasing order of league points, holds at most
\* the cap of each tier, and every entry of a tier in it is among the
\* highest of that tier: fewer entries than the cap had more points.
C15_TierMajorTopEntries ==
    dPc = "done" =>
        /\ \A i, j \in DOMAIN highEloPlayers :
              i < j =>
                 /\ TierRank(highEloPlayers[i].tier) <= TierRank(highEloPlayers[j].tier)
                 /\ highEloPlayers[i].tier = highEloPlayers[j].tier
                       => highEloPlayers[i].leaguePoints >= highEloPlayers[j].leaguePoints
        /\ \A t \in DOMAIN Tiers :
              Len(SelectSeq(highEloPlayers, LAMBDA p : p.tier = Tiers[t]))
                 <= TierCap(Tiers[t])
        /\ \A i \in DOMAIN highEloPlayers :
              LET p == highEloPlayers[i]
                  entries == tierAnswers[TierRank(p.tier)].entries
              IN  /\ \E k \in DOMAIN entries :
                        /\ entries[k].summonerId = p.summonerId
                        /\ entries[k].leaguePoints = p.leaguePoints
                  /\ Len(SelectSeq(entries, LAMBDA e : e.leaguePoints > p.leaguePoints))
                        < TierCap(p.tier)

\* all three tiers answered with more entries than the cap, in no order,
\* and every selected entry was resolved
C15_Witness ==
    /\ dPc = "done"
    /\ \A t \in DOMAIN Tiers :
          /\ Len(tierAnswers[t].entries) > TierCap(Tiers[t])
          /\ tierAnswers[t].entries[1].leaguePoints < tierAnswers[t].entries[2].leaguePoints
    /\ Len(highEloPlayers) = ChallengerCap + GrandmasterCap + MasterCap

\* ---------------------------------------------------------------------
\* Properties of the extraction (specification SpecExtract)
\* ---------------------------------------------------------------------

\* the participants of a match that determineLane puts into a lane
Classified(match, lane) ==
    Len(SelectSeq(match.participants, LAMBDA p : determineLane(p) = lane))

\* the observations of matchups for a match and a lane
Observations(matchId, lane) ==
    Len(SelectSeq(matchups, LAMBDA o : o.matchId = matchId /\ o.lane = lane))

\* C16: for every match and every lane, extractMatchupData emits exactly
\* one observation when exactly two participants of the match are
\* classified into the lane and none when zero, one, or three or more are;
\* it emits nothing else.
C16_OneObservationPerPair ==
    aPc = "extracted" =>
        /\ \A k \in DOMAIN matchData : \A lane \in LaneSet :
              Observations(matchData[k].matchId, lane) =
                 IF HasParticipants(matchData[k]) /\ Classified(matchData[k], lane) = 2
                 THEN 1 ELSE 0
        /\ \A i \in DOMAIN matchups :
              /\ matchups[i].lane \in LaneSet
              /\ \E k \in DOMAIN matchData : matchData[k].matchId = matchups[i].matchId

\* a match with three participants in one lane gave nothing, the match
\* after it gave one observation
C16_Witness ==
    /\ aPc = "extracted"
    /\ Len(matchData) = 2
    /\ Classified(matchData[1], "TOP") = 3
    /\ Len(matchups) = 1 /\ matchups[1].matchId = matchData[2].matchId

\* the lane the role table of the claim gives
RoleLane(role) ==
    CASE role = "SOLO" -> "TOP"
      [] role = "DUO" -> "MIDDLE"
      [] role = "DUO_CARRY" -> "BOTTOM"
      [] role = "DUO_SUPPORT" -> "UTILITY"
      [] role = "NONE" -> "JUNGLE"
      [] OTHER -> "no lane"

\* C17: a participant whose position field is one of TOP, MIDDLE, BOTTOM,
\* UTILITY, JUNGLE is grouped under that lane whatever its role field says;
\* otherwise it is grouped under the lane the role table gives for its role
\* field; and when neither applies it is in no lane group.
C17_PositionThenRole ==
    aPc = "extracted" =>
        LET grouped == SelectSeq(matchData, LAMBDA m : m.hasInfo /\ m.hasParticipants)
        IN  grouped # <<>> =>
              \A i \in DOMAIN grouped[Len(grouped)].participants :
                 LET p == grouped[Len(grouped)].participants[i]
                     expected ==
                        IF p.teamPosition \in {"TOP", "MIDDLE", "BOTTOM", "UTILITY", "JUNGLE"}
                        THEN p.teamPosition
                        ELSE RoleLane(p.role)
                 IN  \A lane \in LaneSet :
                        (\E k \in DOMAIN laneGroups[lane] : laneGroups[lane][k] = p)
                           <=> lane = expected

\* a participant with position TOP and role NONE went to TOP, one without
\* position and with role SOLO too, one with neither went nowhere
C17_Witness ==
    /\ aPc = "extracted"
    /\ Len(matchData) = 1 /\ Len(matchData[1].participants) = 3
    /\ \E k \in DOMAIN laneGroups["TOP"] :
          laneGroups["TOP"][k].teamPosition = "TOP" /\ laneGroups["TOP"][k].role = "NONE"
    /\ \E k \in DOMAIN laneGroups["TOP"] :
          laneGroups["TOP"][k].teamPosition = "" /\ laneGroups["TOP"][k].role = "SOLO"
    /\ \E i \in 1..3 :
          /\ matchData[1].participants[i].teamPosition = ""
          /\ matchData[1].participants[i].role = ""
    /\ laneGroups["JUNGLE"] = <<>>

\* ---------------------------------------------------------------------
\* Properties of calculateCounterRelationships
\* ---------------------------------------------------------------------

\* the sum of the totals of the first n samples whose champion is
\* championId, whatever the opponent and the lane
RECURSIVE TotalOfSamples(_, _, _)
TotalOfSamples(samples, championId, n) ==
    IF n = 0 THEN 0
    ELSE TotalOfSamples(samples, championId, n - 1) +
         (IF samples[n].key.championId = championId THEN samples[n].total ELSE 0)

\* C18: after calculateCounterRelationships, for every known champion c,
\* overallStats.totalGames of c is the sum, over every opponent and every
\* lane, of the totals of the samples of c.  An observation names the
\* champion by the championId of the participant, which is the number the
\* catalogue has in the field key of the champion.
C18_TotalGamesIsSumOfSamples ==
    aPc = "calculated" =>
        \A id \in DOMAIN championStats :
           championStats[id].overallStats.totalGames =
              TotalOfSamples(matchupStats, championStats[id].key, Len(matchupStats))

\* the samples of champion id against opponent vsId in a lane
SamplesOf(id, vsId, lane) ==
    { i \in DOMAIN matchupStats :
         matchupStats[i].key = [championId |-> id, vsChampionId |-> vsId, lane |-> lane] }

\* every entry of a strongCounters list satisfies Related(c, entry)
StrongCountersAll(Related(_, _)) ==
    aPc = "calculated" =>
        \A c \in DOMAIN championStats :
           LET strongCounters == championStats[c].counterRelationships.strongCounters
           IN  \A k \in DOMAIN strongCounters : Related(c, strongCounters[k])

KnownAs(number) ==
    { id \in DOMAIN championStats : championStats[id].key = PropertyKey(number) }

\* an entry references the champion with a number, by its number or by the
\* id the catalogue gives it
References(entry, number) ==
    \/ entry.championId = PropertyKey(number)
    \/ entry.championId \in KnownAs(number)

\* C20: with known champions X and Y and 40 observations in lane TOP in
\* each of which X wins against Y, and no other observation, the result of
\* calculateCounterRelationships has in Y's counteredBy list an entry that
\* references X, with enemyWinRate 1.0 and strength class HARD_COUNTER.
C20_LoserCounteredByWinner ==
    (aPc = "calculated" /\ matchups = ObservationList(40, 0, 0)) =>
        \E y \in KnownAs(Ahri) :
           LET counteredBy == championStats[y].counterRelationships.counteredBy
           IN  \E k \in DOMAIN counteredBy :
                  /\ References(counteredBy[k], Aatrox)
                  /\ counteredBy[k].enemyWinRate = Rate(40, 40)
                  /\ counteredBy[k].counterStrength = "HARD_COUNTER"

\* the p-value of a sample is below 0.05: with the normalCDF of lines
\* 1297-1299 that is zScore^2 = (2 wins - total)^2 / total above 3.656661
PValueBelow(wins, total) ==
    (2 * wins - total) * (2 * wins - total) * 1000000 > 3656661 * total

\* the entries a sample of champion id against vsId in a lane has in the
\* lists: in the lists strongCounters and counters of id, naming vsId, and
\* in the list counteredBy of vsId, naming id
EntriesOf(id, vsId, lane) ==
    LET Named(list, o) ==
           { k \in DOMAIN list : list[k].championId = o /\ list[k].lane = lane }
    IN  [strongCounters |->
            IF id \in DOMAIN championStats
            THEN Cardinality(Named(championStats[id].counterRelationships.strongCounters, vsId))
            ELSE 0,
         counters |->
            IF id \in DOMAIN championStats
            THEN Cardinality(Named(championStats[id].counterRelationships.counters, vsId))
            ELSE 0,
         counteredBy |->
            IF vsId \in DOMAIN championStats
            THEN Cardinality(Named(championStats[vsId].counterRelationships.counteredBy, id))
            ELSE 0]

NoEntries == [strongCounters |-> 0, counters |-> 0, counteredBy |-> 0]

\* C21: a matchup sample whose total is below 30, or whose significance
\* test gives a p-value of 0.05 or more, contributes no entry to the
\* strongCounters, counters or counteredBy list of any champion.
C21_SmallOrInsignificantExcluded ==
    aPc = "calculated" =>
        \A i \in DOMAIN matchupStats :
           LET stat == matchupStats[i]
           IN  (stat.total < 30 \/ ~PValueBelow(stat.wins, stat.total)) =>
                  EntriesOf(stat.key.championId, stat.key.vsChampionId, stat.key.lane)
                     = NoEntries

\* Aatrox won 29 games of 29 against Ahri in lane TOP, both are known by
\* their numbers, and no list has an entry
C21_Witness ==
    /\ aPc = "calculated"
    /\ champions = NumberedCatalogue
    /\ \E i \in SamplesOf("266", "103", "TOP") :
          matchupStats[i].wins = 29 /\ matchupStats[i].total = 29
    /\ \A c \in DOMAIN championStats :
          /\ championStats[c].counterRelationships.strongCounters = <<>>
          /\ championStats[c].counterRelationships.counters = <<>>
          /\ championStats[c].counterRelationships.counteredBy = <<>>

\* the known champions whose number, the field key of the catalogue, is
\* the championId of a sample
KnownByKey(championId) ==
    { id \in DOMAIN championStats : championStats[id].key = championId }

\* C22: a matchup sample of a known champion with total = 30 and wins = 21
\* passes the significance test and produces an entry in that champion's
\* strongCounters list with strength class HARD_COUNTER.
C22_SeventyPercentOfThirty ==
    aPc = "calculated" =>
        \A i \in DOMAIN matchupStats :
           LET stat == matchupStats[i]
           IN  (stat.total = 30 /\ stat.wins = 21) =>
                  /\ PValueBelow(21, 30)
                  /\ \A c \in KnownByKey(stat.key.championId) :
                        LET strongCounters ==
                               championStats[c].counterRelationships.strongCounters
                        IN  \E k \in DOMAIN strongCounters :
                               /\ strongCounters[k].lane = stat.key.lane
                               /\ strongCounters[k].sampleSize = 30
                               /\ strongCounters[k].matchupWinRate = Rate(21, 30)
                               /\ strongCounters[k].counterStrength = "HARD_COUNTER"

\* two sequences have the same elements, each as many times
SameEntries(s, t) ==
    /\ Len(s) = Len(t)
    /\ \A i \in DOMAIN s :
          Cardinality({ j \in DOMAIN s : s[j] = s[i] }) =
             Cardinality({ j \in DOMAIN t : t[j] = s[i] })

GamesObserved(id) ==
    LET names == {championStats[id].key, championStats[id].id}
    IN  { i \in DOMAIN matchups :
             \/ PropertyKey(matchups[i].champion1.id) \in names
             \/ PropertyKey(matchups[i].champion2.id) \in names }

\* C24: the mapping returned by calculateCounterRelationships has exactly
\* one record per known champion, whatever the observations: an observation
\* naming a champion that is not known adds no record, and a known champion
\* with no observed game keeps totalGames 0, wins 0, the initial win rate
\* 0.5, isReliable false and three empty relationship lists.
C24_OneRecordPerKnownChampion ==
    aPc = "calculated" =>
        /\ DOMAIN championStats = { champions[i].id : i \in DOMAIN champions }
        /\ \A i \in DOMAIN champions :
              /\ championStats[champions[i].id].id = champions[i].id
              /\ championStats[champions[i].id].key = champions[i].key
              /\ championStats[champions[i].id].name = champions[i].name
        /\ \A id \in DOMAIN championStats :
              GamesObserved(id) = {} =>
                 /\ championStats[id].overallStats =
                       [totalGames |-> 0, wins |-> 0, winRate |-> [num |-> 1, den |-> 2],
                        isReliable |-> FALSE]
                 /\ championStats[id].counterRelationships =
                       [strongCounters |-> <<>>, counters |-> <<>>, counteredBy |-> <<>>]

\* the only observations were two games of Aatrox against a champion the
\* catalogue does not have: that champion has no record, Aatrox has its
\* two games and Ahri its initial values
C24_Witness ==
    /\ aPc = "calculated"
    /\ champions = NumberedCatalogue
    /\ matchups = ObservationList(0, 0, 2)
    /\ DOMAIN championStats = {"266", "103"}
    /\ championStats["266"].overallStats.totalGames = 2
    /\ championStats["103"].overallStats.totalGames = 0
    /\ championStats["103"].overallStats.winRate = Half

\* ---------------------------------------------------------------------
\* Properties of fetchAllData and makeDdragonRequest (specification SpecRun)
\* ---------------------------------------------------------------------

\* getChampionData returned the catalogue
CatalogueFetched == championData # <<>> /\ faPc \notin {"call", "version", "catalogue", "details"}

\* what fetchAllData resolved with
ResolvedWithCatalogueOrError ==
    faPc = "returned" =>
        IF CatalogueFetched
        THEN /\ DOMAIN gameStats = { champions[i].id : i \in DOMAIN champions }
             /\ Cardinality(DOMAIN gameStats) = Len(ChampionList)
             /\ errors = <<>>
        ELSE /\ DOMAIN gameStats = {}
             /\ Len(errors) = 1

DdragonStep == ddPc' # ddPc \/ ddSends' # ddSends

\* C26: no step of makeDdragonRequest, from its call to its return or its
\* rejection, enters checkRateLimit, and none changes the request log of the
\* rate limiter or the call counter.
C26_DdragonUnthrottled ==
    [][DdragonStep =>
          /\ requests' = requests
          /\ callCount' = callCount
          /\ totalRequests' = totalRequests
          /\ checks' = checks
          /\ mrPc' = mrPc]_vars

\* a development run in which the version list failed and the champion list
\* and both detail documents were fetched: four Data Dragon requests, and
\* neither a check nor a logged or counted request
C26_Witness ==
    /\ faPc = "returned"
    /\ ~isProd
    /\ version = FallbackVersion
    /\ ddSends = 2 + Len(ChampionList)
    /\ Len(detailedChampions) = Len(ChampionList)
    /\ \A i \in DOMAIN detailedChampions : detailedChampions[i].detailed
    /\ requests = <<>>
    /\ callCount = 0
    /\ checks = 0

\* ---------------------------------------------------------------------
\* The two-minute quota of checkRateLimit (specification Spec)
\* ---------------------------------------------------------------------

\* the timestamps of the last two minutes that the running check found, or
\* finds when it is about to start
FoundInTwoMinutes ==
    IF mrPc = "check" THEN Len(NewerThan(requests, now - TwoMinutes))
    ELSE totalRequests

\* C27: a check that finds the two-minute quota of timestamps in the log
\* returns only from the long sleep, the length of the sleep later and with
\* an empty log; and with calls made one at a time the log never holds more
\* timestamps than the two-minute quota.
C27_LongSleepResetsLog ==
    /\ [][ (InCheck /\ mrPc' = "send" /\ FoundInTwoMinutes >= TwoMinuteLimit) =>
              /\ mrPc = "longSleep"
              /\ now' = now + TwoMinuteSleep
              /\ requests' = <<>> ]_vars
    /\ [](Len(requests) <= TwoMinuteLimit)

\* a check found the quota in the log and has returned with an empty log,
\* and the request it let through is logged as the only one
C27_Witness ==
    /\ mrPc = "returned"
    /\ totalRequests = TwoMinuteLimit
    /\ callCount = TwoMinuteLimit + 1
    /\ Len(requests) = 1

\* ---------------------------------------------------------------------
\* The teams of an observation (specification SpecExtract)
\* ---------------------------------------------------------------------

\* C28: the two champions of every observation extractMatchupData emits are
\* of opposing teams and exactly one of them is marked as the winner, for
\* every match of ten participants, with lanes taken from the position or
\* from the role.
C28_OpposingTeamsOneWinner ==
    aPc = "extracted" =>
        \A k \in DOMAIN matchData :
           Len(matchData[k].participants) = FullParticipants =>
              \A i \in DOMAIN matchups :
                 matchups[i].matchId = matchData[k].matchId =>
                    /\ matchups[i].champion1.teamId # matchups[i].champion2.teamId
                    /\ matchups[i].champion1.win # matchups[i].champion2.win

\* ---------------------------------------------------------------------
\* The lists of a record (specification SpecStats)
\* ---------------------------------------------------------------------

\* the (opponent, lane) pairs of a list
PairsOf(list) == { <<list[k].championId, list[k].lane>> : k \in DOMAIN list }

\* win rate >= percent / 100, for an entry
EntryAtLeast(entry, percent) ==
    100 * entry.matchupWinRate.num >= percent * entry.matchupWinRate.den

\* C29: in the result of calculateCounterRelationships a strongCounters
\* entry has a win rate of at least 0.65 and the class HARD_COUNTER, a
\* counters entry a win rate of at least 0.56 and below 0.65 and the class
\* SOFT_COUNTER or STRONG_COUNTER, no opponent and lane are in both lists of
\* a champion, and no entry of the three lists has the class NEUTRAL or
\* INSUFFICIENT_DATA.
C29_ListsMatchClasses ==
    aPc = "calculated" =>
        \A c \in DOMAIN championStats :
           LET lists == championStats[c].counterRelationships
           IN  /\ \A k \in DOMAIN lists.strongCounters :
                     /\ EntryAtLeast(lists.strongCounters[k], 65)
                     /\ lists.strongCounters[k].counterStrength = "HARD_COUNTER"
               /\ \A k \in DOMAIN lists.counters :
                     /\ EntryAtLeast(lists.counters[k], 56)
                     /\ ~EntryAtLeast(lists.counters[k], 65)
                     /\ lists.counters[k].counterStrength \in {"SOFT_COUNTER", "STRONG_COUNTER"}
               /\ PairsOf(lists.strongCounters) \cap PairsOf(lists.counters) = {}
               /\ \A k \in DOMAIN lists.counteredBy :
                     lists.counteredBy[k].counterStrength
                        \in {"SOFT_COUNTER", "STRONG_COUNTER", "HARD_COUNTER"}

\* Aatrox won 30 games and lost 15 against Ahri in lane TOP and 2 games
\* against a stranger: Ahri is among its strongCounters, with two thirds and
\* the hardest class, its counters list is empty and its counteredBy list
\* has the entry of the reverse sample
C29_Witness ==
    /\ aPc = "calculated"
    /\ champions = NumberedCatalogue
    /\ Len(matchups) = 47
    /\ Len(championStats["266"].counterRelationships.strongCounters) = 1
    /\ championStats["266"].counterRelationships.strongCounters[1].matchupWinRate = Rate(30, 45)
    /\ championStats["266"].counterRelationships.strongCounters[1].counterStrength
          = "HARD_COUNTER"
    /\ championStats["266"].counterRelationships.counters = <<>>
    /\ Len(championStats["266"].counterRelationships.counteredBy) = 1

\* every observation of the call has one winner and one loser
OneWinnerEach ==
    \A i \in DOMAIN matchups : matchups[i].champion1.win # matchups[i].champion2.win

====
